---- MODULE Spec2Model ----
(***************************************************************************)
(* Model of the AdanAgent query-resolution core:                           *)
(*   - QueryCache (services/aiClient.ts, latest revision carried at the    *)
(*     end of src/services/adaEngine.ts),                                  *)
(*   - callFreeAI, the provider fallback chain (native Puter.js models,    *)
(*     POST endpoints with retry/backoff, GET fallbacks),                  *)
(*   - AdaEngine.process and KinematicEngine.process, the two callers.     *)
(* Numbers in [0,1] (correctness, misconception, thresholds) are kept in   *)
(* hundredths; times are milliseconds.                                     *)
(***************************************************************************)
EXTENDS Integers, Sequences, FiniteSets, TLC

(***************************************************************************)
(* Bounds of the exploration (not program constants).                      *)
(***************************************************************************)
\* number of clock advances explored in one behaviour
MaxTicks == 2
\* largest capacity a QueryCache is constructed with in the cache-only specification
MaxCacheSize == 2
\* largest TTL (ms) a QueryCache is constructed with in the cache-only specification
MaxTtl == 2
\* number of set/get operations explored in the cache-only specification
MaxOps == 4

(***************************************************************************)
(* Program constants (AI_CONFIG).                                          *)
(***************************************************************************)
CacheMaxSize == 64
CacheTtlMs == 300000
MaxRetries == 2
BaseDelayMs == 800

Null == "null"

VARIABLES
    \* ---- QueryCache object and the wall clock ----
    cache,        \* Map<string,{value,timestamp}> in iteration (= insertion) order
    maxSize,      \* QueryCache.maxSize
    ttlMs,        \* QueryCache.ttlMs
    now,          \* Date.now()
    ticks,        \* number of clock advances so far
    \* ---- observation of the last cache operation (cache-only specification) ----
    op,           \* the last set/get: [name, key, value, result, age, stored]
    ops,          \* number of set/get operations so far
    setLog,       \* history: the keys passed to set, in call order
    hits,         \* history: number of get calls that returned a value
    getDeletes,   \* history: number of entries removed by get (expired)
    \* ---- WordMechanics ----
    mechanics,    \* the AnalysisResult of the latest WordMechanics.analyze call
    \* ---- concurrent callFreeAI calls ----
    pending,      \* the calls that missed the cache and await a provider
    \* ---- the SemanticSolver component ----
    solver,       \* its state (query, result, isProcessing), the handleProcess
                  \* activations under way, and the number of submissions so far
    \* ---- one callFreeAI activation ----
    pc,           \* "idle" | "request" (awaiting a provider) | "sleep" | "done"
    cur,          \* the attempt being awaited, or about to be made after the sleep
    messages,     \* the messages argument
    useCache,     \* the useCache argument
    errors,       \* the errors array, kept as its last entry (<<>> while empty)
    delay,        \* argument of the sleep in progress (0 when none was made)
    aborted,      \* controller.signal.aborted of the current HTTP attempt
    inflight,     \* attempts started by this activation and not yet settled
    abandoned,    \* native chat calls still pending after their attempt timed out
    ret,          \* how the activation ended: returned text or thrown error
    puterAvailable, \* window.puter?.ai is present
    \* ---- history of the activation ----
    issued,       \* the request issued most recently
    failure,      \* the attempt that failed in the latest step, with what it failed on
    calls,        \* number of callFreeAI activations so far
    unreported,   \* failed attempts of the activation that pushed nothing to errors
    \* ---- the engine that made the call ----
    caller,       \* "none" | "direct" | "ada" | "kinematic"
    query,        \* the query argument of process
    complexity,   \* the complexity argument of AdaEngine.process
    result,       \* the SearchResult process returned (NoResult while it runs)
    parsed,       \* the object process passes to normalizeEvaluation
    evalData,     \* the evalData variable of AdaEngine.process
    repeated      \* history: the resolution repeats the one before it: the same c, m,
                  \* action and error presence (SpecGovernance), the same arguments
                  \* (SpecRepeat)

cacheVars == <<cache, maxSize, ttlMs, now, ticks>>
obsVars == <<op, ops, setLog, hits, getDeletes, mechanics, pending, solver>>
callerVars == <<caller, query, complexity, result, parsed, evalData, repeated>>
callVars == <<pc, cur, messages, useCache, errors, delay, aborted, inflight, abandoned,
              ret, puterAvailable, issued, failure, calls, unreported,
          caller, query, complexity, result, parsed, evalData, repeated>>
vars == <<cache, maxSize, ttlMs, now, ticks, op, ops, setLog, hits, getDeletes, mechanics,
          pending, solver,
          pc, cur, messages, useCache, errors, delay, aborted, inflight, abandoned,
          ret, puterAvailable, issued, failure, calls, unreported,
          caller, query, complexity, result, parsed, evalData, repeated>>

(***************************************************************************)
(* Sequence helpers.                                                       *)
(***************************************************************************)
RECURSIVE SeqFilterKey(_, _)
\* the entries of s whose key is not k, order kept (Map.delete)
SeqFilterKey(s, k) ==
    IF s = <<>> THEN <<>>
    ELSE IF Head(s).key = k THEN SeqFilterKey(Tail(s), k)
         ELSE <<Head(s)>> \o SeqFilterKey(Tail(s), k)

CacheKeySeq(c) == [ i \in 1..Len(c) |-> c[i].key ]
CacheHas(c, k) == \E i \in 1..Len(c) : c[i].key = k
CacheEntry(c, k) == c[CHOOSE i \in 1..Len(c) : c[i].key = k]

(***************************************************************************)
(* QueryCache                                                              *)
(***************************************************************************)
\* Map.delete(key)
MapDelete(c, k) == SeqFilterKey(c, k)

\* Map.set(key, entry): an existing key keeps its place, a new key goes last
MapSet(c, k, v, t) ==
    IF CacheHas(c, k)
    THEN [ i \in 1..Len(c) |->
             IF c[i].key = k THEN [key |-> k, value |-> v, timestamp |-> t] ELSE c[i] ]
    ELSE Append(c, [key |-> k, value |-> v, timestamp |-> t])

\* variant of get that expires an entry as soon as its age equals the TTL
QueryCacheGetResultAtTtl(c, k, t, ttl) ==
    IF ~CacheHas(c, k) THEN Null
    ELSE IF t - CacheEntry(c, k).timestamp >= ttl THEN Null
    ELSE CacheEntry(c, k).value

\* variant of get that never finds an entry
QueryCacheGetResultMiss(c, k, t, ttl) == Null

\* QueryCache.get: the value returned (Null when absent or expired)
QueryCacheGetResult(c, k, t, ttl) ==
    IF ~CacheHas(c, k) THEN Null
    ELSE IF t - CacheEntry(c, k).timestamp > ttl THEN Null
    ELSE CacheEntry(c, k).value

\* QueryCache.get: the map after the call (an expired entry is deleted)
QueryCacheGetMap(c, k, t, ttl) ==
    IF CacheHas(c, k) /\ t - CacheEntry(c, k).timestamp > ttl
    THEN MapDelete(c, k)
    ELSE c

\* variant of set that evicts the entry inserted last
QueryCacheSetEvictNewest(c, k, v, t, cap) ==
    LET evicted == IF Len(c) >= cap /\ Len(c) > 0 THEN MapDelete(c, c[Len(c)].key) ELSE c
    IN  MapSet(evicted, k, v, t)

\* variant of set that never evicts
QueryCacheSetNoEvict(c, k, v, t, cap) == MapSet(c, k, v, t)


\* QueryCache.set: evict the oldest entry when at capacity, then store
QueryCacheSet(c, k, v, t, cap) ==
    LET evicted == IF Len(c) >= cap /\ Len(c) > 0 THEN MapDelete(c, c[1].key) ELSE c
    IN  MapSet(evicted, k, v, t)

(***************************************************************************)
(* Provider configuration (AI_CONFIG) and the attempts it induces.         *)
(***************************************************************************)
PuterModels == <<"gpt-4o-mini", "claude-3-5-haiku-latest">>

Endpoints ==
    << [url |-> "https://text.pollinations.ai/", label |-> "proxied",
        models |-> <<"openai", "mistral", "openai-large">>],
       [url |-> "https://gen.pollinations.ai/v1/chat/completions", label |-> "proxied",
        models |-> <<"openai", "mistral">>] >>

DirectEndpoints ==
    << [url |-> "https://text.pollinations.ai/openai", label |-> "direct",
        models |-> <<"openai">>] >>

\* allEndpoints of callFreeAI: proxied endpoints first, then direct ones
allEndpoints == Endpoints \o DirectEndpoints

\* getFallbacks of callFreeAI, with the number of URLs each one tries
getFallbacks ==
    << [name |-> "GET fallback", urls |-> 1],
       [name |-> "Legacy GET fallback", urls |-> 2] >>

\* attempts per GET fallback: for (attempt = 0; attempt <= 1; attempt++)
GetAttempts == 2

NoAttempt == [tier |-> "none", i |-> 0, j |-> 0, n |-> 0]
Native(i) == [tier |-> "native", i |-> i, j |-> 0, n |-> 1]
Post(e, m, n) == [tier |-> "post", i |-> e, j |-> m, n |-> n]
Get(g, u, n) == [tier |-> "get", i |-> g, j |-> u, n |-> n]

(***************************************************************************)
(* What a provider can answer.                                             *)
(***************************************************************************)
\* a strict JSON evaluation, and prose that holds no JSON
JsonText == "{\"correctness\": 0.9, \"misconception\": 0.05, \"entity\": \"France\", \"response\": \"Paris is the capital of France.\", \"action\": \"RESPOND\"}"
ProseText == "The capital of France is Paris."
Texts == {JsonText, ProseText}
Statuses == {404, 429, 500}

\* window.puter.ai.chat: a result whose message.content is a string, an array
\* of text blocks, blank, or of another shape; a rejection; no answer in time
PuterOutcomes ==
    [kind : {"string", "array"}, text : Texts]
    \cup [kind : {"blank", "malformed", "reject", "timeout"}, text : {Null}]

\* content of tryPuterAI for one chat result ("" when it yields no text)
PuterContent(o) ==
    IF o.kind \in {"string", "array"} THEN o.text ELSE ""

\* fetch: a 2xx response with a body, a non-2xx status, or a rejection (the
\* timeout abort; a network error is handled the same way, with status null).
\* A 2xx body is plain text, a JSON envelope that carries the text, a JSON
\* document that carries no text field (malformed; text is then the raw
\* body), or blank
HttpOutcomes ==
    [kind : {"plain", "envelope", "malformed"}, text : Texts, status : {200}]
    \cup [kind : {"blank"}, text : {Null}, status : {200}]
    \cup [kind : {"status"}, text : {Null}, status : Statuses]
    \cup [kind : {"abort"}, text : {Null}, status : {0}]

\* variant of extractAIContent that yields nothing for a JSON document
\* without a text field
extractAIContentStrict(o) ==
    IF o.kind \in {"plain", "envelope"} THEN o.text ELSE ""

\* extractAIContent(raw) for a 2xx body: the text of the envelope, else the
\* trimmed body itself
extractAIContent(o) ==
    IF o.kind \in {"plain", "envelope", "malformed"} THEN o.text ELSE ""

\* variant of retryable that holds for every status
AIRequestErrorAlwaysRetryable(status) == TRUE

\* AIRequestError.retryable; status 0 stands for status === null
AIRequestErrorRetryable(status) ==
    status = 0 \/ status = 429 \/ status >= 500

StatusText == [s \in Statuses |->
    CASE s = 404 -> "404 Not Found"
      [] s = 429 -> "429 Too Many Requests"
      [] s = 500 -> "500 Internal Server Error"]

\* the AIRequestError a failed HTTP attempt ends with; the message is the
\* text `${prefix}${response.status} ${response.statusText}`, the text of the
\* empty-response error, or the message of the error fetch rejected with
HttpError(o, prefix, emptyText) ==
    CASE o.kind = "status" -> [message |-> <<prefix, StatusText[o.status]>>, status |-> o.status]
      [] o.kind = "blank"  -> [message |-> <<"", emptyText>>, status |-> 0]
      [] OTHER             -> [message |-> <<"", "The operation was aborted">>, status |-> 0]

\* tryPostEndpoint: the error of a failed POST attempt
PostError(o) == HttpError(o, "", "Empty response from AI")

\* tryGetFallback / tryLegacyGetFallback: the error of a failed GET
GetError(g, o) ==
    IF g = 1 THEN HttpError(o, "GET fallback failed: ", "Empty response from GET fallback")
    ELSE HttpError(o, "Legacy GET fallback failed: ", "Empty response from legacy GET fallback")

\* response.ok
HttpOk(o) == o.status = 200

\* what the catch block of one native attempt logs: the message of the error
\* the race was rejected with (nothing is thrown for a result without text)
PuterError(o) ==
    CASE o.kind = "timeout" -> <<"", "Puter timeout">>
      [] o.kind = "reject"  -> <<"", "chat rejected">>
      [] OTHER              -> <<"", "">>

\* one entry of the errors array: the text that names the source (provider,
\* endpoint, model, attempt number) and the message of the error
ErrorLine(label, a, message) == [label |-> label, at |-> a, message |-> message]

\* const errors: string[] = []; the array is only ever appended to and is
\* read once, by errors.join: the model keeps its last entry
NoErrors == <<>>

\* errors.push(line)
Push(errs, line) == <<line>>

NoFailure == [attempt |-> NoAttempt, outcome |-> "none", status |-> 0, message |-> <<"", "">>]
Failure(a, o, status, message) ==
    [attempt |-> a, outcome |-> o.kind, status |-> status, message |-> message]

NoRet == [kind |-> "none", text |-> Null, from |-> "none",
          message |-> [head |-> "", lines |-> NoErrors]]
Returned(t, src) == [kind |-> "return", text |-> t, from |-> src,
                     message |-> [head |-> "", lines |-> NoErrors]]
\* the aggregated AIRequestError: `All AI endpoints failed:\n${errors.join('\n')}`
Thrown(errs) == [kind |-> "throw", text |-> Null, from |-> "none",
                 message |-> [head |-> "All AI endpoints failed:", lines |-> errs]]

RECURSIVE Pow2(_)
Pow2(k) == IF k <= 0 THEN 1 ELSE 2 * Pow2(k - 1)

RECURSIVE makeKey(_)
\* QueryCache.makeKey: `${role}:${content}` of every message, joined by "|"
makeKey(ms) ==
    IF ms = <<>> THEN <<>>
    ELSE LET one == <<Head(ms).role, ":">> \o Head(ms).content
         IN  IF Len(ms) = 1 THEN one ELSE one \o <<"|">> \o makeKey(Tail(ms))

(***************************************************************************)
(* SearchResult, the record both engines return.  Numbers of [0,1] are in  *)
(* hundredths, the coordinates of a trajectory point too; an entity is the *)
(* sequence of its words.                                                  *)
(***************************************************************************)
\* error: undefined
NoError == [head |-> "", lines |-> NoErrors]

\* lexical of a result that has none (the kinematic tiers set no lexical)
NoLexical == [synonyms |-> <<>>, antonyms |-> <<>>]

NoResult ==
    [kind |-> "none", tier |-> 0, method |-> "", shape |-> "", entity |-> <<>>,
     confidence |-> 0, insight |-> <<>>,
     csv |-> [c |-> 0, m |-> 0, f |-> 0, k |-> 0, state |-> ""],
     constraint |-> [status |-> "", ratio |-> 0],
     action |-> "", proofLabel |-> "", ledger |-> <<>>, lexical |-> NoLexical, trajectoryPoints |-> <<>>, isClosed |-> FALSE,
     error |-> NoError]

\* the exception that leaves an engine, were one to escape it
Raised(message) == [NoResult EXCEPT !.kind = "exception", !.error = message]

(***************************************************************************)
(* KinematicEngine.  A query is the sequence of its tokens, which single    *)
(* spaces separate.  Apart from the tokens listed in TokenForms, the tokens *)
(* explored are lower-case and carry no punctuation, and none of them       *)
(* contains a word that a pattern names apart from the tails listed with    *)
(* the pattern, so that a regular expression matches the text exactly when  *)
(* its words match the tokens.                                              *)
(***************************************************************************)
Queries ==
    { <<"capital", "of", "france">>,
      <<"france", "capital", "city">>,
      <<"what", "does", "entropy", "mean">>,
      <<"tell", "me", "about", "quasars">>,
      <<"history", "of", "population", "of", "Texas?">>,
      <<"who", "is", "the", "King", "of", "Spain">>,
      <<"king", "war">>,
      <<"king", "war", "battle">>,
      <<"the", "King", "?">> }

\* the words that are at most two characters long
ShortWords == {"of", "me", "is", "a", ""}

\* the tokens that are not lower-case words, each with
\*   lower:    token.toLowerCase()
\*   alnum:    token.toLowerCase().replace(/[^a-z0-9]/g, '')
\*   stripped: token.replace(/[?]+$/, '')
TokenForms ==
    [w \in {"Texas?", "King", "Spain", "?", "Synonyms"} |->
        CASE w = "Texas?" -> [lower |-> "texas?", alnum |-> "texas", stripped |-> "Texas"]
          [] w = "King"   -> [lower |-> "king", alnum |-> "king", stripped |-> "King"]
          [] w = "Spain"  -> [lower |-> "spain", alnum |-> "spain", stripped |-> "Spain"]
          [] w = "Synonyms" -> [lower |-> "synonyms", alnum |-> "synonyms",
                                stripped |-> "Synonyms"]
          [] w = "?"      -> [lower |-> "?", alnum |-> "", stripped |-> ""]]

\* the token as a pattern with the i flag reads it
toLowerCase(w) == IF w \in DOMAIN TokenForms THEN TokenForms[w].lower ELSE w

\* normalized of matchTier2: lower-case letters and digits of the token
normalized(w) == IF w \in DOMAIN TokenForms THEN TokenForms[w].alnum ELSE w

\* match[1].trim().replace(/[?]+$/, '').trim() on the words of the captured
\* group: the question marks that end the last word go, and the word with them
\* when nothing else is left of it
stripEntity(e) ==
    IF e = <<>> THEN e
    ELSE LET w == e[Len(e)]
             stripped == IF w \in DOMAIN TokenForms THEN TokenForms[w].stripped ELSE w
         IN  IF stripped = "" THEN SubSeq(e, 1, Len(e) - 1)
             ELSE [e EXCEPT ![Len(e)] = stripped]

\* matchTier1: the patterns in the order they are tried.
\*   lead: the phrase, a space, then at least one character (the entity)
\*   tail: at least one character (the entity), then a space and the word
\*   mean: the phrase, the entity, then a space and the word
Tier1Patterns ==
    << [kind |-> "lead", phrases |-> {<<"capital", "of">>}, tails |-> {}, shape |-> "capital(X) = ?"],
       [kind |-> "lead", phrases |-> {<<"who", "founded">>}, tails |-> {}, shape |-> "founder(X) = ?"],
       [kind |-> "lead", phrases |-> {<<"population", "of">>}, tails |-> {}, shape |-> "population(X) = ?"],
       [kind |-> "lead", phrases |-> {<<"atomic", "number", "of">>}, tails |-> {}, shape |-> "atomic_num(X) = ?"],
       [kind |-> "tail", phrases |-> {}, tails |-> {"law", "laws"}, shape |-> "law(X) = ?"],
       [kind |-> "lead", phrases |-> {<<"language", "of">>}, tails |-> {}, shape |-> "language(X) = ?"],
       [kind |-> "lead", phrases |-> {<<"currency", "of">>}, tails |-> {}, shape |-> "currency(X) = ?"],
       [kind |-> "lead", phrases |-> {<<"president", "of">>}, tails |-> {}, shape |-> "leader(X) = ?"],
       [kind |-> "lead", phrases |-> {<<"leader", "of">>}, tails |-> {}, shape |-> "leader(X) = ?"],
       [kind |-> "lead",
        phrases |-> {<<"who", "lead">>, <<"who", "leads">>, <<"who", "rule">>, <<"who", "rules">>,
                     <<"who", "govern">>, <<"who", "governs">>},
        tails |-> {}, shape |-> "leader(X) = ?"],
       [kind |-> "lead", phrases |-> {<<"who", "invented">>}, tails |-> {}, shape |-> "inventor(X) = ?"],
       [kind |-> "lead", phrases |-> {<<"who", "discovered">>}, tails |-> {}, shape |-> "inventor(X) = ?"],
       [kind |-> "lead",
        phrases |-> {<<"who", "wrote">>, <<"who", "composed">>, <<"who", "authored">>},
        tails |-> {}, shape |-> "composer(X) = ?"],
       [kind |-> "lead", phrases |-> {<<"where", "is">>}, tails |-> {}, shape |-> "location(X) = ?"],
       [kind |-> "lead", phrases |-> {<<"define">>}, tails |-> {}, shape |-> "define(X) = ?"],
       [kind |-> "mean", phrases |-> {<<"what", "is">>, <<"what", "does">>},
        tails |-> {"mean", "means", "meaning"}, shape |-> "define(X) = ?"],
       [kind |-> "lead", phrases |-> {<<"history", "of">>}, tails |-> {}, shape |-> "history(X) = ?"],
       [kind |-> "tail", phrases |-> {}, tails |-> {"theorem", "theorems"}, shape |-> "math(X) = ?"] >>

\* the phrase ph stands in q from word i on
PhraseAt(q, ph, i) ==
    /\ i + Len(ph) - 1 <= Len(q)
    /\ \A k \in 1..Len(ph) : toLowerCase(q[i + k - 1]) = ph[k]

SetMin(S) == CHOOSE x \in S : \A y \in S : x <= y
SetMax(S) == CHOOSE x \in S : \A y \in S : x >= y

\* where the entity of a match of pattern p in q begins and ends ({} when
\* the pattern does not match); the match is the leftmost one, (.+) takes
\* as much as it can and (.+?) as little
PatternSpans(q, p) ==
    CASE p.kind = "lead" ->
           { <<i + Len(ph), Len(q)>> :
               <<i, ph>> \in { x \in (1..Len(q)) \X p.phrases :
                                 PhraseAt(q, x[2], x[1]) /\ x[1] + Len(x[2]) <= Len(q) } }
      [] p.kind = "tail" ->
           { <<1, i - 1>> : i \in { j \in 2..Len(q) : toLowerCase(q[j]) \in p.tails } }
      [] OTHER ->
           { <<x[1] + Len(x[2]), x[3] - 1>> :
               x \in { y \in (1..Len(q)) \X p.phrases \X (1..Len(q)) :
                         /\ PhraseAt(q, y[2], y[1])
                         /\ y[3] > y[1] + Len(y[2])
                         /\ toLowerCase(q[y[3]]) \in p.tails } }

\* query.match(p.regex): the span of match[1], <<0, 0>> when there is no match
PatternMatch(q, p) ==
    LET spans == PatternSpans(q, p)
    IN  IF spans = {} THEN <<0, 0>>
        ELSE CASE p.kind = "lead" ->
                    CHOOSE s \in spans : \A t \in spans : s[1] <= t[1]
               [] p.kind = "tail" ->
                    CHOOSE s \in spans : \A t \in spans : s[2] <= t[2]
               [] OTHER ->
                    LET first == SetMin({ s[1] : s \in spans })
                    IN  CHOOSE s \in spans :
                          s[1] = first /\ \A t \in spans : t[1] = first => s[2] >= t[2]

\* variant of the Tier-1 result that leaves the trajectory open
Tier1ResultOpen(p, e) ==
    [kind |-> "result", tier |-> 1, method |-> "Rigid Pattern Match", shape |-> p.shape,
     entity |-> e, confidence |-> 100, insight |-> <<"Rigid resolution complete for", p.shape>>,
     csv |-> [c |-> 100, m |-> 0, f |-> 0, k |-> 100, state |-> "CORRECT"],
     constraint |-> [status |-> "GREEN", ratio |-> 100],
     action |-> "RESPOND", proofLabel |-> "", ledger |-> <<>>, lexical |-> NoLexical,
     trajectoryPoints |-> << <<0, 0>>, <<100, 100>> >>, isClosed |-> FALSE,
     error |-> NoError]

\* the Tier-1 result for pattern p and entity e
Tier1Result(p, e) ==
    [kind |-> "result", tier |-> 1, method |-> "Rigid Pattern Match", shape |-> p.shape,
     entity |-> e, confidence |-> 100, insight |-> <<"Rigid resolution complete for", p.shape>>,
     csv |-> [c |-> 100, m |-> 0, f |-> 0, k |-> 100, state |-> "CORRECT"],
     constraint |-> [status |-> "GREEN", ratio |-> 100],
     action |-> "RESPOND", proofLabel |-> "", ledger |-> <<>>, lexical |-> NoLexical,
     trajectoryPoints |-> << <<0, 0>>, <<100, 100>> >>, isClosed |-> TRUE,
     error |-> NoError]

\* the patterns of matchTier1 that match q, by their place in the list
matchingPatterns(q) ==
    { n \in 1..Len(Tier1Patterns) : PatternMatch(q, Tier1Patterns[n]) # <<0, 0>> }

\* match[1] of pattern p on q, as its words
capture(q, p) ==
    LET span == PatternMatch(q, p)
    IN  SubSeq(q, span[1], span[2])

\* variant of matchTier1 in which the last pattern that matches wins
matchTier1LastWins(q) ==
    LET hits1 == matchingPatterns(q)
    IN  IF hits1 = {} THEN NoResult
        ELSE LET p == Tier1Patterns[SetMax(hits1)]
             IN  Tier1Result(p, stripEntity(capture(q, p)))

\* matchTier1: the result of the first pattern that matches, NoResult for null
matchTier1(q) ==
    LET hits1 == matchingPatterns(q)
    IN  IF hits1 = {} THEN NoResult
        ELSE LET p == Tier1Patterns[SetMin(hits1)]
             IN  Tier1Result(p, stripEntity(capture(q, p)))

\* NOISE_WORDS of matchTier2
NoiseWords ==
    {"what", "does", "from", "the", "who", "is", "are", "was", "were", "of", "a", "an",
     "in", "on", "at", "to", "for"}

SEMANTIC_CLUSTERS ==
    [CAPITAL |-> {"capital", "seat", "government", "rule", "govern", "headquarters",
                  "center", "city", "administrative"},
     FOUNDER |-> {"founder", "found", "founded", "create", "created", "start", "started",
                  "build", "built", "establish", "established", "originate", "originated",
                  "begin", "began", "commence", "launched", "creator", "father", "cofounder"},
     POPULATION |-> {"population", "people", "inhabitants", "citizens", "residents", "live",
                     "living", "populate", "demographics", "census"},
     PHYSICS |-> {"law", "theory", "principle", "equation", "force", "motion", "relativity",
                  "thermodynamics", "gravity", "physics", "quantum", "entropy", "momentum",
                  "velocity", "acceleration"},
     ELEMENT |-> {"element", "atom", "atomic", "chemical", "periodic", "symbol", "molecule",
                  "compound", "proton", "electron", "neutron", "isotope", "valence"},
     LANGUAGE |-> {"language", "speak", "spoken", "tongue", "dialect", "linguistic",
                   "official", "native", "bilingual", "multilingual"},
     CURRENCY |-> {"currency", "money", "monetary", "coin", "banknote", "denomination",
                   "exchange", "tender", "dollar", "euro", "yen", "pound"},
     LEADER |-> {"president", "prime", "minister", "king", "queen", "emperor", "chancellor",
                 "leader", "ruler", "monarch", "sultan", "dictator", "ceo", "chairman",
                 "director", "head", "chief", "governor", "mayor", "senator", "secretary",
                 "premier"},
     HISTORY |-> {"history", "historical", "war", "battle", "revolution", "empire", "dynasty",
                  "era", "period", "ancient", "medieval", "colonial", "independence",
                  "treaty", "conquest", "civilization", "reign", "century", "decade", "year",
                  "event", "happened", "occur", "occurred"},
     LOCATION |-> {"located", "location", "where", "continent", "region", "country", "border",
                   "neighboring", "geography", "geographical", "latitude", "longitude",
                   "north", "south", "east", "west", "ocean", "sea", "river", "mountain",
                   "lake", "island", "peninsula", "desert"},
     BIOLOGY |-> {"species", "organism", "cell", "gene", "genetic", "dna", "rna", "protein",
                  "enzyme", "bacteria", "virus", "evolution", "taxonomy", "kingdom", "phylum",
                  "genus", "mammal", "reptile", "amphibian", "photosynthesis", "mitosis",
                  "ecosystem", "habitat", "organ", "anatomy", "biology", "biological"},
     MATH |-> {"calculate", "calculation", "formula", "theorem", "proof", "algebra",
               "calculus", "geometry", "trigonometry", "integral", "derivative", "matrix",
               "vector", "polynomial", "logarithm", "factorial", "prime", "fibonacci",
               "arithmetic", "mathematical", "math", "mathematics", "sum", "product",
               "quotient"},
     DEFINITION |-> {"define", "definition", "meaning", "means", "meant", "term", "concept",
                     "describe", "description", "explain", "explanation", "refer", "refers",
                     "denote", "denotes", "signify", "signifies", "synonym", "antonym",
                     "etymology"},
     INVENTION |-> {"invent", "invented", "inventor", "invention", "patent", "discover",
                    "discovered", "discovery", "discoverer", "devised", "designed",
                    "designer", "pioneer", "pioneered", "innovator", "innovation",
                    "breakthrough"},
     COMPOSER |-> {"compose", "composed", "composer", "composition", "symphony", "concerto",
                   "sonata", "opera", "wrote", "written", "author", "authored", "playwright",
                   "novelist", "poet", "songwriter", "directed", "director", "film", "movie",
                   "painted", "painter", "sculpted", "sculptor", "artist"}]

\* the checkCluster calls of matchTier2, in call order
ClusterChecks ==
    << [clusterName |-> "CAPITAL", shape |-> "capital(X) = ?"],
       [clusterName |-> "FOUNDER", shape |-> "founder(X) = ?"],
       [clusterName |-> "POPULATION", shape |-> "population(X) = ?"],
       [clusterName |-> "PHYSICS", shape |-> "law(X) = ?"],
       [clusterName |-> "ELEMENT", shape |-> "atomic_num(X) = ?"],
       [clusterName |-> "LANGUAGE", shape |-> "language(X) = ?"],
       [clusterName |-> "CURRENCY", shape |-> "currency(X) = ?"],
       [clusterName |-> "LEADER", shape |-> "leader(X) = ?"],
       [clusterName |-> "HISTORY", shape |-> "history(X) = ?"],
       [clusterName |-> "LOCATION", shape |-> "location(X) = ?"],
       [clusterName |-> "BIOLOGY", shape |-> "biology(X) = ?"],
       [clusterName |-> "MATH", shape |-> "math(X) = ?"],
       [clusterName |-> "DEFINITION", shape |-> "define(X) = ?"],
       [clusterName |-> "INVENTION", shape |-> "inventor(X) = ?"],
       [clusterName |-> "COMPOSER", shape |-> "composer(X) = ?"] >>

\* normalizedWords: the lower-case words of the query, punctuation removed,
\* that are longer than two characters
normalizedWords(q) ==
    SelectSeq([i \in 1..Len(q) |-> normalized(q[i])], LAMBDA w : w \notin ShortWords)

\* overlapCount of checkCluster: the words that the cluster holds, repeats counted
overlapCount(clusterName, words) ==
    Cardinality({ i \in 1..Len(words) : words[i] \in SEMANTIC_CLUSTERS[clusterName] })

\* variant of checkCluster in which a later cluster wins a tie
checkClusterLastWins(words, n, best) ==
    LET count == overlapCount(ClusterChecks[n].clusterName, words)
    IN  IF count >= best.score /\ count >= 1
        THEN [shape |-> ClusterChecks[n].shape, score |-> count,
              clusterName |-> ClusterChecks[n].clusterName]
        ELSE best

\* checkCluster for the n-th call: a later cluster replaces the best one only
\* with a strictly greater overlap
checkCluster(words, n, best) ==
    LET count == overlapCount(ClusterChecks[n].clusterName, words)
    IN  IF count > best.score
        THEN [shape |-> ClusterChecks[n].shape, score |-> count,
              clusterName |-> ClusterChecks[n].clusterName]
        ELSE best

RECURSIVE checkClusters(_, _, _)
\* the checkCluster calls from the n-th on, in the order of the code
checkClusters(words, n, best) ==
    IF n > Len(ClusterChecks) THEN best
    ELSE checkClusters(words, n + 1, checkCluster(words, n, best))

\* bestMatch after all checkCluster calls
bestMatch(words) ==
    checkClusters(words, 1, [shape |-> "UNKNOWN", score |-> 0, clusterName |-> ""])

\* Math.min(0.95, 0.7 + score * 0.1), in hundredths
Tier2Confidence(score) == IF 70 + 10 * score > 95 THEN 95 ELSE 70 + 10 * score

\* variant of entityTokens that keeps the noise words
entityTokensWithNoise(q, cluster) ==
    SelectSeq(q, LAMBDA w : normalized(w) \notin cluster /\ normalized(w) # "")

\* entityTokens of matchTier2: the original tokens whose normalized form is
\* not empty, no word of the cluster and no noise word
entityTokens(q, cluster) ==
    SelectSeq(q, LAMBDA w : /\ normalized(w) \notin cluster
                            /\ normalized(w) \notin NoiseWords
                            /\ normalized(w) # "")

\* matchTier2: the result for the best cluster, NoResult for null
matchTier2(q) ==
    LET best == bestMatch(normalizedWords(q))
    IN  IF best.score >= 1
        THEN LET tokens == entityTokens(q, SEMANTIC_CLUSTERS[best.clusterName])
             IN  [kind |-> "result", tier |-> 2, method |-> "Semantic Cluster Resonance",
                  shape |-> best.shape,
                  entity |-> IF tokens = <<>> THEN <<"Unknown">> ELSE tokens,
                  confidence |-> Tier2Confidence(best.score),
                  insight |-> <<"Heuristic match suggests", best.shape>>,
                  csv |-> [c |-> 85, m |-> 5, f |-> 10, k |-> 85, state |-> "PARTIAL"],
                  constraint |-> [status |-> "YELLOW", ratio |-> 90],
                  action |-> "RESPOND", proofLabel |-> "", ledger |-> <<>>, lexical |-> NoLexical,
                  trajectoryPoints |-> << <<0, 0>>, <<50, 50>>, <<100, 100>> >>,
                  isClosed |-> TRUE, error |-> NoError]
        ELSE NoResult

\* the messages matchTier3 sends
KinematicMessages(q) ==
    << [role |-> "system",
        content |-> <<"You are a Kinematic Semantics expert. Keep responses brief and concrete.">>],
       [role |-> "user",
        content |-> <<"Analyze this query using Kinematic Semantics: \"">> \o q
                    \o <<"\". Extract the primary entity and query shape, then provide a short kinematic insight.">>] >>

\* variant of matchTier3 that lets the error of callFreeAI out
matchTier3Rethrow(r) ==
    IF r.kind = "return"
    THEN [kind |-> "result", tier |-> 3, method |-> "Free-AI Latent Resonance",
          shape |-> "UNKNOWN", entity |-> <<"Resolved via LLM">>, confidence |-> 85,
          insight |-> <<r.text>>,
          csv |-> [c |-> 75, m |-> 10, f |-> 15, k |-> 75, state |-> "PARTIAL"],
          constraint |-> [status |-> "GREEN", ratio |-> 100],
          action |-> "RESPOND", proofLabel |-> "", ledger |-> <<>>, lexical |-> NoLexical,
          trajectoryPoints |-> << <<0, 0>>, <<20, 80>>, <<100, 100>> >>, isClosed |-> TRUE,
          error |-> NoError]
    ELSE Raised(r.message)

\* matchTier3, once callFreeAI has ended with r: the try block or the catch block
matchTier3(r) ==
    IF r.kind = "return"
    THEN [kind |-> "result", tier |-> 3, method |-> "Free-AI Latent Resonance",
          shape |-> "UNKNOWN", entity |-> <<"Resolved via LLM">>, confidence |-> 85,
          insight |-> <<r.text>>,
          csv |-> [c |-> 75, m |-> 10, f |-> 15, k |-> 75, state |-> "PARTIAL"],
          constraint |-> [status |-> "GREEN", ratio |-> 100],
          action |-> "RESPOND", proofLabel |-> "", ledger |-> <<>>, lexical |-> NoLexical,
          trajectoryPoints |-> << <<0, 0>>, <<20, 80>>, <<100, 100>> >>, isClosed |-> TRUE,
          error |-> NoError]
    ELSE [kind |-> "result", tier |-> 3, method |-> "Failed Vector Search",
          shape |-> "UNKNOWN", entity |-> <<"System Error">>, confidence |-> 0,
          insight |-> <<"Manifold structural collapse: Unable to resolve semantic signal.">>,
          csv |-> [c |-> 0, m |-> 0, f |-> 100, k |-> 0, state |-> "FOG"],
          constraint |-> [status |-> "RED", ratio |-> 0],
          action |-> "ABSTAIN", proofLabel |-> "", ledger |-> <<>>, lexical |-> NoLexical,
          trajectoryPoints |-> << <<0, 0>> >>, isClosed |-> FALSE,
          error |-> r.message]

\* variant of the tier order that asks the clusters before the patterns
KinematicTierClustersFirst(q) ==
    IF matchTier2(q) # NoResult THEN 2
    ELSE IF matchTier1(q) # NoResult THEN 1
    ELSE 3

\* KinematicEngine.process: the tier that resolves q
KinematicTier(q) ==
    IF matchTier1(q) # NoResult THEN 1
    ELSE IF matchTier2(q) # NoResult THEN 2
    ELSE 3

\* KinematicEngine.process for each query: the tier that resolves it and
\* what matchTier1 and matchTier2 return for it
KinematicResolution ==
    [q \in Queries |->
        [tier |-> KinematicTier(q), tier1 |-> matchTier1(q), tier2 |-> matchTier2(q),
         \* the patterns that match q and what each one captures
         patterns |-> matchingPatterns(q),
         captures |-> [n \in matchingPatterns(q) |-> capture(q, Tier1Patterns[n])],
         \* overlapCount of each checkCluster call
         overlaps |-> [n \in 1..Len(ClusterChecks) |->
                          overlapCount(ClusterChecks[n].clusterName, normalizedWords(q))]]]

(***************************************************************************)
(* AdaEngine: the evaluation and the governance calculus.                  *)
(***************************************************************************)
\* the queries put to AdaEngine: one that a misconception pattern matches
\* and one that none matches
AdaQueries ==
    { <<"capital", "of", "france">>,
      <<"what", "is", "a", "constructor">> }

Complexities == {"STANDARD", "ELI5"}

\* session histories passed to process
Histories ==
    { << [role |-> "user", parts |-> <<"hello">>] >> }

\* COGNITIVE_THRESHOLDS, in hundredths
MisconceptionHigh == 40
FogHigh == 50
CorrectHigh == 70
RatioYellowMin == 80
RatioRedMin == 120
GroundFloor == 5
FallbackCorrectness == 62
FallbackMisconceptionLow == 15

STOP_WORDS ==
    {"the", "and", "for", "with", "that", "this", "from", "into", "your", "about", "what",
     "when", "where", "which", "would", "could", "should", "there", "their", "have", "has",
     "been", "were", "will", "shall", "query", "mode", "standard", "eli5", "technical",
     "not", "only", "works", "think"}

\* the titles of the first misconception pattern
LeaderTitles ==
    { <<"president">>, <<"prime", "minister">>, <<"king">>, <<"queen">>, <<"emperor">>,
      <<"chancellor">>, <<"leader">>, <<"ruler">>, <<"ceo">>, <<"chairman">>, <<"director">> }

\* MISCONCEPTION_PATTERNS as the word phrases each expression accepts, with its
\* probability in hundredths (followed: a space must follow the phrase; the
\* alternatives with digits are left out, the words explored hold no numeral)
MISCONCEPTION_PATTERNS ==
    << [phrases |-> { <<"who", "is">> \o the \o adj \o title :
                        the \in {<<>>, <<"the">>},
                        adj \in {<<>>, <<"current">>, <<"present">>},
                        title \in LeaderTitles },
        followed |-> FALSE, prob |-> 40],
       [phrases |-> {<<"capital", "of">>, <<"currency", "of">>, <<"language", "of">>},
        followed |-> FALSE, prob |-> 30],
       [phrases |-> {<<"latest">>, <<"current">>, <<"newest">>, <<"recent">>},
        followed |-> TRUE, prob |-> 40],
       [phrases |-> {<<"is", "it", "true">>, <<"is", "it", "correct">>, <<"do", "people">>,
                     <<"does", "everyone">>, <<"isn't", "it">>},
        followed |-> FALSE, prob |-> 45],
       [phrases |-> {<<"always">>, <<"never">>, <<"everyone", "knows">>, <<"obviously">>,
                     <<"clearly">>, <<"of", "course">>},
        followed |-> FALSE, prob |-> 40],
       [phrases |-> {<<"how", "many">>, <<"what", "percentage">>, <<"what", "number">>,
                     <<"how", "much">>},
        followed |-> FALSE, prob |-> 30],
       [phrases |-> {<<"cause">>, <<"causes">>, <<"caused", "by">>, <<"reason", "for">>,
                     <<"why", "does">>, <<"why", "do">>, <<"why", "is">>},
        followed |-> FALSE, prob |-> 35],
       [phrases |-> {<<"difference", "between">>, <<"compare">>, <<"versus">>, <<"vs">>},
        followed |-> FALSE, prob |-> 25],
       [phrases |-> {<<"year">>, <<"decade">>, <<"century">>},
        followed |-> FALSE, prob |-> 35],
       [phrases |-> {<<"still">>, <<"anymore">>, <<"used", "to">>, <<"no", "longer">>,
                     <<"nowadays">>},
        followed |-> FALSE, prob |-> 35],
       [phrases |-> {<<"healthy">>, <<"unhealthy">>, <<"safe">>, <<"dangerous">>, <<"toxic">>,
                     <<"cure">>, <<"treatment">>},
        followed |-> FALSE, prob |-> 40],
       [phrases |-> {<<"flat", "earth">>, <<"moon", "landing">>, <<"vaccine">>,
                     <<"conspiracy">>, <<"myth">>, <<"debunk">>},
        followed |-> FALSE, prob |-> 50] >>

\* pattern.test(query)
MisconceptionPatternTest(p, q) ==
    \E ph \in p.phrases, i \in 1..Len(q) :
        /\ PhraseAt(q, ph, i)
        /\ p.followed => i + Len(ph) <= Len(q)

\* variant of estimateFallbackMisconception that stops at the first pattern
\* that matches
estimateFallbackMisconceptionFirst(q) ==
    LET matching == { k \in 1..Len(MISCONCEPTION_PATTERNS) :
                        MisconceptionPatternTest(MISCONCEPTION_PATTERNS[k], q) }
    IN  IF matching = {} THEN FallbackMisconceptionLow
        ELSE MISCONCEPTION_PATTERNS[SetMin(matching)].prob

\* estimateFallbackMisconception: the greatest probability among the patterns
\* that match, FallbackMisconceptionLow when none does
estimateFallbackMisconception(q) ==
    SetMax({FallbackMisconceptionLow} \cup
           { MISCONCEPTION_PATTERNS[n].prob :
               n \in { k \in 1..Len(MISCONCEPTION_PATTERNS) :
                         MisconceptionPatternTest(MISCONCEPTION_PATTERNS[k], q) } })

\* NaN: what Number makes of a value that is no number, what parseFloat
\* makes of a capture without a digit, and what clamp passes on
NaN == -2

\* the values a field of the parsed object can hold, each with what Number
\* and String make of it (num in hundredths, str as the words of the text);
\* primitive is FALSE for an object that neither its toString nor its valueOf
\* converts, of which Number and String throw a TypeError
Undefined ==
    [type |-> "undefined", num |-> NaN, str |-> <<"undefined">>, items |-> <<>>,
     primitive |-> TRUE]
Num(n) ==
    [type |-> "number", num |-> n, str |-> <<ToString(n)>>, items |-> <<>>, primitive |-> TRUE]
Str(s) ==
    [type |-> "string", num |-> IF s = <<>> THEN 0 ELSE NaN, str |-> s, items |-> <<>>,
     primitive |-> TRUE]
Arr(a) ==
    [type |-> "array", num |-> IF a = <<>> THEN 0 ELSE NaN, str |-> a, items |-> a,
     primitive |-> TRUE]
JsonNull ==
    [type |-> "null", num |-> 0, str |-> <<"null">>, items |-> <<>>, primitive |-> TRUE]
\* the object {"toString": 1}: its own toString is no function and the
\* inherited valueOf returns the object
NoPrimitive ==
    [type |-> "object", num |-> NaN, str |-> <<"[object Object]">>, items |-> <<>>,
     primitive |-> FALSE]

\* the object an empty evaluation ({}) is, which is also what the properties
\* of a parsed number or string read as
EmptyEvaluation ==
    [synonyms |-> Undefined, antonyms |-> Undefined, entity |-> Undefined,
     action |-> Undefined, correctness |-> Undefined, misconception |-> Undefined,
     equation |-> Undefined, response |-> Undefined]

\* the keys of an evaluation as they stand in a text
JsonKeys ==
    [lexeme : {"\"correctness\":"}, field : {"correctness"}]
    \cup [lexeme : {"\"misconception\":"}, field : {"misconception"}]
    \cup [lexeme : {"\"entity\":"}, field : {"entity"}]
    \cup [lexeme : {"\"equation\":"}, field : {"equation"}]
    \cup [lexeme : {"\"response\":"}, field : {"response"}]
    \cup [lexeme : {"\"synonyms\":"}, field : {"synonyms"}]
    \cup [lexeme : {"\"antonyms\":"}, field : {"antonyms"}]
    \cup [lexeme : {"\"action\":"}, field : {"action"}]

KeyOf(lexeme) == (CHOOSE k \in JsonKeys : k.lexeme = lexeme).field
IsKey(lexeme) == \E k \in JsonKeys : k.lexeme = lexeme

\* the JSON values that stand in the texts explored, by their lexeme
JsonValues ==
    [lexeme : {"0.9"}, value : {Num(90)}]
    \cup [lexeme : {"0.05"}, value : {Num(5)}]
    \cup [lexeme : {"1.7"}, value : {Num(170)}]
    \cup [lexeme : {"\"France\""}, value : {Str(<<"France">>)}]
    \cup [lexeme : {"\"Paris is the capital of France.\""},
          value : {Str(<<"Paris is the capital of France.">>)}]
    \cup [lexeme : {"\"RESPOND\""}, value : {Str(<<"RESPOND">>)}]
    \cup [lexeme : {"\"MAYBE\""}, value : {Str(<<"MAYBE">>)}]
    \cup [lexeme : {"\"high\""}, value : {Str(<<"high">>)}]
    \cup [lexeme : {"\"\""}, value : {Str(<<>>)}]
    \cup [lexeme : {"[\"seat\",\"chief town\"]"}, value : {Arr(<<"seat", "chief town">>)}]
    \cup [lexeme : {"[\" seat \",\" \",\"seat\"]"}, value : {Arr(<<" seat ", " ", "seat">>)}]
    \cup [lexeme : {"[\"far\"]"}, value : {Arr(<<"far">>)}]
    \cup [lexeme : {"null"}, value : {JsonNull}]
    \cup [lexeme : {"{\"toString\":1}"}, value : {NoPrimitive}]

ValueOf(lexeme) == (CHOOSE v \in JsonValues : v.lexeme = lexeme).value
IsValue(lexeme) == \E v \in JsonValues : v.lexeme = lexeme

\* stripCodeFences: the text inside the first pair of fences, else the text
\* (a fence, three backquotes, is written ''')
stripCodeFences(raw) ==
    LET opening == { i \in 1..Len(raw) : /\ raw[i] \in {"'''json", "'''"}
                                         /\ \E j \in (i + 1)..Len(raw) : raw[j] = "'''" }
    IN  IF opening = {} THEN raw
        ELSE LET i == SetMin(opening)
                 j == SetMin({ n \in (i + 1)..Len(raw) : raw[n] = "'''" })
             IN  SubSeq(raw, i + 1, j - 1)

\* what JSON.parse or a parser built on it ends with
SyntaxError == [kind |-> "error", object |-> EmptyEvaluation, scalar |-> Undefined]
ParsedObject(o) == [kind |-> "object", object |-> o, scalar |-> Undefined]
ParsedScalar(v) == [kind |-> "scalar", object |-> EmptyEvaluation, scalar |-> v]
ParsedNull == ParsedScalar(JsonNull)

RECURSIVE Members(_, _)
\* the object that the members key value , key value ... of lex make, added
\* to o in their order (a key that comes again replaces the earlier value)
Members(lex, o) ==
    IF Len(lex) < 2 THEN o
    ELSE Members(SubSeq(lex, 4, Len(lex)),
                 [o EXCEPT ![KeyOf(lex[1])] = ValueOf(lex[2])])

\* JSON.parse(lex): a single value, or an object { key value , key value }
JSONparse(lex) ==
    IF Len(lex) = 1 /\ IsValue(lex[1]) THEN ParsedScalar(ValueOf(lex[1]))
    ELSE IF Len(lex) < 2 \/ lex[1] # "{" \/ lex[Len(lex)] # "}" THEN SyntaxError
    ELSE LET inner == SubSeq(lex, 2, Len(lex) - 1)
         IN  IF inner = <<>> THEN ParsedObject(EmptyEvaluation)
             ELSE IF /\ Len(inner) % 3 = 2
                     /\ \A n \in 1..Len(inner) :
                           CASE n % 3 = 1 -> IsKey(inner[n])
                             [] n % 3 = 2 -> IsValue(inner[n])
                             [] OTHER -> inner[n] = ","
                  THEN ParsedObject(Members(inner, EmptyEvaluation))
                  ELSE SyntaxError

\* parseJsonBlock: the text without its fences parsed, else the span from
\* its first { to its last } parsed, else null
parseJsonBlock(raw) ==
    LET cleaned == stripCodeFences(raw)
        whole == JSONparse(cleaned)
        braces == { i \in 1..Len(cleaned) : cleaned[i] = "{" }
        closing == { j \in 1..Len(cleaned) : cleaned[j] = "}" }
    IN  IF whole.kind # "error" THEN whole
        ELSE IF braces = {} \/ closing = {} \/ SetMax(closing) < SetMin(braces)
        THEN ParsedNull
        ELSE LET span == JSONparse(SubSeq(cleaned, SetMin(braces), SetMax(closing)))
             IN  IF span.kind # "error" THEN span ELSE ParsedNull

\* cleaned.match(/"field"\s*:\s*.../): what follows the first occurrence of
\* the key that a value of the wanted types follows, Undefined when there is none
LooseMatch(cleaned, field, types) ==
    LET at == { i \in 1..(Len(cleaned) - 1) :
                  /\ IsKey(cleaned[i]) /\ KeyOf(cleaned[i]) = field
                  /\ IsValue(cleaned[i + 1])
                  /\ ValueOf(cleaned[i + 1]).type \in types }
    IN  IF at = {} THEN Undefined ELSE ValueOf(cleaned[SetMin(at) + 1])

\* parseLooselyStructuredResponse: null for an empty text; the keys found one
\* by one when the text names one of them; else the text as the response
parseLooselyStructuredResponse(raw) ==
    LET cleaned == stripCodeFences(raw)
        hasJsonKeys == \E i \in 1..Len(cleaned) :
                          /\ IsKey(cleaned[i])
                          /\ KeyOf(cleaned[i]) \in {"correctness", "misconception",
                                                    "response", "entity"}
        response == LooseMatch(cleaned, "response", {"string"})
        action == LooseMatch(cleaned, "action", {"string"})
    IN  IF cleaned = <<>> THEN ParsedNull
        ELSE IF hasJsonKeys
        THEN ParsedObject(
                [EmptyEvaluation EXCEPT
                    !.response = IF response.type = "undefined" \/ response.str = <<>>
                                 THEN Str(cleaned) ELSE response,
                    !.entity = LooseMatch(cleaned, "entity", {"string"}),
                    !.equation = LooseMatch(cleaned, "equation", {"string"}),
                    !.correctness = LooseMatch(cleaned, "correctness", {"number"}),
                    !.misconception = LooseMatch(cleaned, "misconception", {"number"}),
                    !.action = IF action.str = <<>> THEN Undefined ELSE action])
        ELSE ParsedObject([EmptyEvaluation EXCEPT !.response = Str(cleaned)])

\* a parsed value is truthy: an object, a number other than 0, a string
\* other than the empty one
Truthy(p) ==
    \/ p.kind = "object"
    \/ p.kind = "scalar" /\ p.scalar.type = "number" /\ p.scalar.num # 0
    \/ p.kind = "scalar" /\ p.scalar.type = "string" /\ p.scalar.str # <<>>
    \/ p.kind = "scalar" /\ p.scalar.type = "array"

\* parsed ?? looselyParsed ?? {} of process, as the object whose properties
\* normalizeEvaluation reads
ParseLexemes(raw) ==
    LET parsedBlock == parseJsonBlock(raw)
        looselyParsed == IF Truthy(parsedBlock) THEN ParsedNull
                         ELSE parseLooselyStructuredResponse(raw)
    IN  IF parsedBlock # ParsedNull THEN parsedBlock.object
        ELSE IF looselyParsed # ParsedNull THEN looselyParsed.object
        ELSE EmptyEvaluation

\* the texts a provider answers with, each with its lexemes: the strict
\* JSON answer; the same inside fences; the same inside prose; JSON broken by
\* a comma that names the keys; prose; prose with a span in braces; the empty
\* text; null; a JSON string; the empty object; fields of other types and out
\* of range; an empty entity and an action outside the set; a key that comes
\* twice; broken JSON with an empty response; an entity that is an object
\* without a primitive value
EvaluationTexts ==
    << [text |-> JsonText,
        lexemes |-> <<"{", "\"correctness\":", "0.9", ",", "\"misconception\":", "0.05", ",",
                      "\"entity\":", "\"France\"", ",",
                      "\"response\":", "\"Paris is the capital of France.\"", ",",
                      "\"action\":", "\"RESPOND\"", "}">>],
       [text |-> "'''json {\"correctness\": 0.9, \"entity\": \"France\"} '''",
        lexemes |-> <<"'''json", "{", "\"correctness\":", "0.9", ",",
                      "\"entity\":", "\"France\"", "}", "'''">>],
       [text |-> "Sure! {\"correctness\": 0.9, \"entity\": \"France\"} Hope that helps.",
        lexemes |-> <<"Sure!", "{", "\"correctness\":", "0.9", ",",
                      "\"entity\":", "\"France\"", "}", "Hope", "that", "helps.">>],
       [text |-> "{\"correctness\": 0.9, \"entity\": \"France\", \"action\": \"RESPOND\",}",
        lexemes |-> <<"{", "\"correctness\":", "0.9", ",", "\"entity\":", "\"France\"", ",",
                      "\"action\":", "\"RESPOND\"", ",", "}">>],
       [text |-> ProseText,
        lexemes |-> <<"The", "capital", "of", "France", "is", "Paris.">>],
       [text |-> "see {France} here",
        lexemes |-> <<"see", "{", "France", "}", "here">>],
       [text |-> "", lexemes |-> <<>>],
       [text |-> "null", lexemes |-> <<"null">>],
       [text |-> "\"Paris is the capital of France.\"",
        lexemes |-> <<"\"Paris is the capital of France.\"">>],
       [text |-> "{}", lexemes |-> <<"{", "}">>],
       [text |-> "{\"correctness\": \"high\", \"misconception\": 1.7}",
        lexemes |-> <<"{", "\"correctness\":", "\"high\"", ",",
                      "\"misconception\":", "1.7", "}">>],
       [text |-> "{\"entity\": \"\", \"action\": \"MAYBE\"}",
        lexemes |-> <<"{", "\"entity\":", "\"\"", ",", "\"action\":", "\"MAYBE\"", "}">>],
       [text |-> "{\"synonyms\": [\"seat\",\"chief town\"], \"correctness\": 0.9, \"correctness\": 0.05}",
        lexemes |-> <<"{", "\"synonyms\":", "[\"seat\",\"chief town\"]", ",",
                      "\"correctness\":", "0.9", ",", "\"correctness\":", "0.05", "}">>],
       [text |-> "{\"synonyms\": [\" seat \",\" \",\"seat\"], \"antonyms\": [\"far\"]}",
        lexemes |-> <<"{", "\"synonyms\":", "[\" seat \",\" \",\"seat\"]", ",",
                      "\"antonyms\":", "[\"far\"]", "}">>],
       [text |-> "{\"response\": \"\", \"entity\": \"France\",,}",
        lexemes |-> <<"{", "\"response\":", "\"\"", ",", "\"entity\":", "\"France\"", ",",
                      ",", "}">>],
       [text |-> "{\"entity\": {\"toString\":1}}",
        lexemes |-> <<"{", "\"entity\":", "{\"toString\":1}", "}">>] >>

\* the lexemes of a text (a text outside the table is one word)
Lexemes(text) ==
    LET known == { n \in 1..Len(EvaluationTexts) : EvaluationTexts[n].text = text }
    IN  IF known = {} THEN <<text>> ELSE EvaluationTexts[SetMin(known)].lexemes

\* parseJsonBlock(text) ?? parseLooselyStructuredResponse(text) ?? {}
ParseEvaluation(text) == ParseLexemes(Lexemes(text))

\* the ?? operator takes its right side for these
Nullish(v) == v.type \in {"undefined", "null"}

\* Math.min(1, Math.max(0, value)), which is NaN for NaN
clamp(value) ==
    IF value = NaN THEN NaN
    ELSE IF value < 0 THEN 0 ELSE IF value > 100 THEN 100 ELSE value

\* normalizeEvaluation: every absent field gets its default (the queries
\* explored are shorter than the 48 characters the default entity keeps),
\* every other one is converted by Number, String or slice(0, 8).map(String)
normalizeEvaluation(partial, q) ==
    [synonyms |-> IF partial.synonyms.type = "array"
                  THEN SubSeq(partial.synonyms.items, 1,
                              IF Len(partial.synonyms.items) < 8
                              THEN Len(partial.synonyms.items) ELSE 8)
                  ELSE <<>>,
     antonyms |-> IF partial.antonyms.type = "array"
                  THEN SubSeq(partial.antonyms.items, 1,
                              IF Len(partial.antonyms.items) < 8
                              THEN Len(partial.antonyms.items) ELSE 8)
                  ELSE <<>>,
     entity |-> IF Nullish(partial.entity)
                THEN (IF q = <<>> THEN <<"Signal">> ELSE q)
                ELSE partial.entity.str,
     action |-> IF Nullish(partial.action) THEN <<"RESPOND">> ELSE partial.action.str,
     correctness |-> clamp(IF Nullish(partial.correctness) THEN 65
                           ELSE partial.correctness.num),
     misconception |-> clamp(IF Nullish(partial.misconception) THEN 20
                             ELSE partial.misconception.num),
     equation |-> IF Nullish(partial.equation)
                  THEN <<"meaning(">> \o q \o <<") = contextual_resolution">>
                  ELSE partial.equation.str,
     response |-> IF Nullish(partial.response)
                  THEN <<"I resolved your query using the available context.">>
                  ELSE partial.response.str]

\* the entity of the fallback evaluation: the first five words of the query
\* that are longer than two characters and are no stop word
FallbackEntity(q) ==
    LET entityWords == SelectSeq(q, LAMBDA w : w \notin ShortWords /\ w \notin STOP_WORDS)
        firstFive == SubSeq(entityWords, 1, IF Len(entityWords) < 5 THEN Len(entityWords) ELSE 5)
    IN  IF firstFive = <<>> THEN <<"Signal">> ELSE firstFive

\* the object literal the catch block of process normalizes, with the given
\* correctness and action
FallbackLiteral(q, c, action) ==
    [synonyms |-> Arr(<<>>),
     antonyms |-> Arr(<<>>),
     entity |-> Str(FallbackEntity(q)),
     action |-> Str(<<action>>),
     correctness |-> Num(c),
     misconception |-> Num(estimateFallbackMisconception(q)),
     equation |-> Str(<<"interpret(">> \o FallbackEntity(q) \o <<") = contextual_resolution">>),
     response |-> Str(<<"I wasn't able to reach the AI service to fully answer your query about">>
                      \o FallbackEntity(q))]

\* variant of the catch block that leaves the worst-case evaluation
AdaCatchWorstCase(message, q) ==
    [parsed |-> FallbackLiteral(q, 0, "ABSTAIN"),
     evalData |-> normalizeEvaluation(FallbackLiteral(q, 0, "ABSTAIN"), q),
     aiError |-> message]

\* the catch block of process: the error message is kept, the evaluation is
\* the deterministic fallback
AdaCatch(message, q) ==
    [parsed |-> FallbackLiteral(q, FallbackCorrectness, "RESPOND"),
     evalData |-> normalizeEvaluation(FallbackLiteral(q, FallbackCorrectness, "RESPOND"), q),
     aiError |-> message]

\* normalizeEvaluation throws: Number or String is applied to a field that
\* has no primitive value
normalizeThrows(partial) ==
    \E field \in {"correctness", "misconception", "entity", "equation", "response", "action"} :
        ~Nullish(partial[field]) /\ ~partial[field].primitive

\* the end of the try statement of process for the parsed object partial:
\* the normalized evaluation, or the catch block when normalizeEvaluation throws
AdaNormalize(partial, q) ==
    IF normalizeThrows(partial)
    THEN AdaCatch([head |-> "Cannot convert object to primitive value", lines |-> NoErrors], q)
    ELSE [parsed |-> partial, evalData |-> normalizeEvaluation(partial, q),
          aiError |-> NoError]

\* the try statement of process, once callFreeAI has ended with r
AdaEvaluate(r, q) ==
    IF r.kind = "return"
    THEN AdaNormalize(ParseEvaluation(r.text), q)
    ELSE AdaCatch(r.message, q)

Max(a, b) == IF a >= b THEN a ELSE b

\* variant of the cascade that tests the fog before the misconception
CognitiveStateOfFogFirst(c, m) ==
    LET f == 100 - Max(c, m)
    IN  IF f > FogHigh THEN "FOG"
        ELSE IF m > c /\ m > MisconceptionHigh THEN "MISCONCEPTION"
        ELSE IF c > CorrectHigh THEN "CORRECT"
        ELSE "PARTIAL"

\* variant of the cascade that is computed for the first resolution only
CognitiveStateOfFirstOnly(c, m) ==
    LET f == 100 - Max(c, m)
    IN  IF calls >= 1 THEN "PARTIAL"
        ELSE IF m > c /\ m > MisconceptionHigh THEN "MISCONCEPTION"
        ELSE IF f > FogHigh THEN "FOG"
        ELSE IF c > CorrectHigh THEN "CORRECT"
        ELSE "PARTIAL"

\* NEWTON GOVERNANCE CALCULATIONS: the cognitive state
CognitiveStateOf(c, m) ==
    LET f == 100 - Max(c, m)
    IN  IF m > c /\ m > MisconceptionHigh THEN "MISCONCEPTION"
        ELSE IF f > FogHigh THEN "FOG"
        ELSE IF c > CorrectHigh THEN "CORRECT"
        ELSE "PARTIAL"

\* Math.max(0.01, 1.0 - m)
Ground(m) == Max(1, 100 - m)

\* variant of the status that reads the ratio before the ground
ConstraintStatusOfRatioFirst(c, m) ==
    IF c * 100 > RatioRedMin * Ground(m) THEN "RED"
    ELSE IF c * 100 >= RatioYellowMin * Ground(m) THEN "YELLOW"
    ELSE IF Ground(m) <= GroundFloor THEN "FINFR"
    ELSE "GREEN"

\* the constraint status; ratio = c / ground is compared without dividing
ConstraintStatusOf(c, m) ==
    IF Ground(m) <= GroundFloor THEN "FINFR"
    ELSE IF c * 100 > RatioRedMin * Ground(m) THEN "RED"
    ELSE IF c * 100 >= RatioYellowMin * Ground(m) THEN "YELLOW"
    ELSE "GREEN"

\* variant of the proof label that does not read the constraint status
ProofLabelOfIgnoreStatus(c, m, action, aiError) ==
    IF c >= CorrectHigh /\ aiError = NoError
    THEN "VERIFIED"
    ELSE IF \/ 100 - Max(c, m) > FogHigh
            \/ action = <<"CLARIFY">>
         THEN "NEEDS_DATA"
         ELSE "LIKELY"

\* variant of the proof label that is VERIFIED on a YELLOW status too
ProofLabelOfYellowToo(c, m, action, aiError) ==
    IF c >= CorrectHigh /\ ConstraintStatusOf(c, m) \in {"GREEN", "YELLOW"}
       /\ aiError = NoError
    THEN "VERIFIED"
    ELSE IF \/ 100 - Max(c, m) > FogHigh
            \/ CognitiveStateOf(c, m) = "FOG"
            \/ action = <<"CLARIFY">>
         THEN "NEEDS_DATA"
         ELSE "LIKELY"


\* PROOF LABEL
ProofLabelOf(c, m, action, aiError) ==
    IF c >= CorrectHigh /\ ConstraintStatusOf(c, m) = "GREEN" /\ aiError = NoError
    THEN "VERIFIED"
    ELSE IF \/ 100 - Max(c, m) > FogHigh
            \/ CognitiveStateOf(c, m) = "FOG"
            \/ action = <<"CLARIFY">>
         THEN "NEEDS_DATA"
         ELSE "LIKELY"

\* COGNITIVE_THRESHOLDS.trajectorySamples and closureTolerance (hundredths)
TrajectorySamples == 20
ClosureTolerance == 5

\* variant of evaluate that samples the curve at i / (trajectorySamples + 1),
\* so that the last sample stops short of P3
evaluateShort(m, i) ==
    LET n == TrajectorySamples + 1
        b1 == 3 * (n - i) * (n - i) * i
        b2 == 3 * (n - i) * i * i
        b3 == i * i * i
        unit == n * n * n * 10
    IN  << (b1 * (100 + 4 * m) + b2 * (900 - 4 * m) + b3 * 1000) \div unit,
           (b1 * (500 + 8 * m) + b2 * (500 - 2 * m) + b3 * 1000) \div unit >>


\* BezierPrimitive.evaluate(i / trajectorySamples) for the curve of process:
\* P0 = [0, 0], P1 = [0.1 + 0.4 m, 0.5 + 0.8 m], P2 = [0.9 - 0.4 m, 0.5 - 0.2 m],
\* P3 = [1, 1].  The control points are taken in thousandths and the
\* Bernstein weights over trajectorySamples^3; the point is kept to the hundredth
evaluate(m, i) ==
    LET n == TrajectorySamples
        b1 == 3 * (n - i) * (n - i) * i
        b2 == 3 * (n - i) * i * i
        b3 == i * i * i
        unit == n * n * n * 10
    IN  << (b1 * (100 + 4 * m) + b2 * (900 - 4 * m) + b3 * 1000) \div unit,
           (b1 * (500 + 8 * m) + b2 * (500 - 2 * m) + b3 * 1000) \div unit >>

\* trajectoryPoints of process for each misconception m: the samples 0..trajectorySamples
AdaTrajectory ==
    [m \in 0..100 |-> [i \in 1..(TrajectorySamples + 1) |-> evaluate(m, i - 1)]]

\* BezierPrimitive.checkClosure: evaluate(1.0) is within the tolerance of P3
checkClosure(m) ==
    LET finalPoint == evaluate(m, TrajectorySamples)
        dist(a, b) == IF a >= b THEN a - b ELSE b - a
    IN  dist(finalPoint[1], 100) < ClosureTolerance /\ dist(finalPoint[2], 100) < ClosureTolerance

\* eli5Rewrite / cleanResponseText of the response
GovernedResponse(response, entity, cx) ==
    IF cx # "ELI5" THEN response
    ELSE IF response = <<>>
    THEN <<"Think of">> \o (IF entity = <<>> THEN <<"this">> ELSE entity)
         \o <<"like a simple puzzle: each piece must fit the facts before we answer.">>
    ELSE IF Head(response) # "Simple take:"
    THEN <<"Simple take:">> \o response
    ELSE response

\* the action argument of the addStep calls of process, in call order
LedgerActions ==
    <<"Parse Query", "AI Evaluation", "Govern Constraints", "Map Glyphs",
      "Generate Response", "Commit">>

\* variant of addStep that numbers the steps from zero
addStepFromZero(ledger, action, timestamp) ==
    Append(ledger, [step |-> Len(ledger), action |-> action, timestamp |-> timestamp])

\* addStep: ledger.push({ step: ledger.length + 1, action, detail, timestamp }),
\* where timestamp is Date.now() - ledgerStart (the detail text is left out)
addStep(ledger, action, timestamp) ==
    Append(ledger, [step |-> Len(ledger) + 1, action |-> action, timestamp |-> timestamp])

RECURSIVE SinceLedgerStart(_, _)
\* Date.now() - ledgerStart at the n-th addStep call, where advances[i] is how
\* far the clock moved between the reading before and the i-th addStep call
SinceLedgerStart(advances, n) ==
    IF n = 0 THEN 0 ELSE SinceLedgerStart(advances, n - 1) + advances[n]

RECURSIVE LedgerAfter(_, _)
\* the ledger after the first n addStep calls of process
LedgerAfter(advances, n) ==
    IF n = 0 THEN <<>>
    ELSE addStep(LedgerAfter(advances, n - 1), LedgerActions[n],
                 SinceLedgerStart(advances, n))

\* the ledger process returns
AdaLedger(advances) == LedgerAfter(advances, Len(LedgerActions))

\* the clock does not move between ledgerStart and the return of process: the
\* part of process after its await is one step, taken at the instant now
Instant == [n \in 1..Len(LedgerActions) |-> 0]

\* the ledger written at one instant
InstantLedger == AdaLedger(Instant)

\* the SearchResult process returns for the evaluation ev
AdaResult(ev, aiError, cx) ==
    LET c == ev.correctness
        m == ev.misconception
        k == Max(c, m)
    IN  [kind |-> "result", tier |-> 3, method |-> "Ada Fluid-Manifold Governance",
         shape |-> "meaning(entity) = contextual_resolution",
         entity |-> ev.entity, confidence |-> c,
         insight |-> GovernedResponse(ev.response, ev.entity, cx),
         csv |-> [c |-> c, m |-> m, f |-> 100 - k, k |-> k, state |-> CognitiveStateOf(c, m)],
         constraint |-> [status |-> ConstraintStatusOf(c, m), ratio |-> (c * 100) \div Ground(m)],
         action |-> IF ev.action = <<>> THEN "" ELSE Head(ev.action),
         proofLabel |-> ProofLabelOf(c, m, ev.action, aiError),
         ledger |-> InstantLedger,
         lexical |-> NoLexical,
         trajectoryPoints |-> AdaTrajectory[m],
         isClosed |-> checkClosure(m),
         error |-> aiError]

\* LEXICAL_FALLBACKS: the synonyms and antonyms known for a keyword
LEXICAL_FALLBACKS ==
    [k \in {"simple", "explain", "deterministic", "verification", "truth", "standard",
            "eli5", "technical"} |->
        CASE k = "simple" ->
               [synonyms |-> <<"clear", "easy", "plain", "friendly">>,
                antonyms |-> <<"complex", "technical", "dense", "complicated">>]
          [] k = "explain" ->
               [synonyms |-> <<"clarify", "describe", "break down", "unpack">>,
                antonyms |-> <<"confuse", "obscure", "complicate", "muddy">>]
          [] k = "deterministic" ->
               [synonyms |-> <<"certain", "predictable", "fixed", "verifiable">>,
                antonyms |-> <<"random", "probabilistic", "uncertain", "speculative">>]
          [] k = "verification" ->
               [synonyms |-> <<"validation", "proof", "confirmation", "audit">>,
                antonyms |-> <<"guessing", "assumption", "speculation", "doubt">>]
          [] k = "truth" ->
               [synonyms |-> <<"fact", "accuracy", "reality", "validity">>,
                antonyms |-> <<"falsehood", "error", "fiction", "inaccuracy">>]
          [] k = "standard" ->
               [synonyms |-> <<"default", "normal", "baseline", "regular">>,
                antonyms |-> <<"exception", "custom", "advanced", "nonstandard">>]
          [] k = "eli5" ->
               [synonyms |-> <<"simple", "kid-friendly", "plain-language", "easy">>,
                antonyms |-> <<"technical", "jargon-heavy", "advanced", "complex">>]
          [] k = "technical" ->
               [synonyms |-> <<"specialized", "precise", "formal", "detailed">>,
                antonyms |-> <<"simple", "casual", "plain", "nontechnical">>]]

\* the lower-case names every object literal inherits from Object.prototype:
\* LEXICAL_FALLBACKS[name] is then the inherited value, which is truthy and
\* has no synonyms or antonyms
ObjectPrototypeNames == {"constructor"}

\* extractLexicalKeywords: the words longer than two characters that are no
\* stop word
extractLexicalKeywords(q) ==
    SelectSeq([n \in 1..Len(q) |->
                  IF q[n] \in DOMAIN TokenForms THEN TokenForms[q[n]].alnum ELSE q[n]],
              LAMBDA w : w \notin ShortWords /\ w \notin STOP_WORDS)

\* the words in which /synonym/i finds a match
SynonymWords == {"synonym", "synonyms"}

\* the words in which /antonym|opposite|contrast/i finds a match
AntonymWords == {"antonym", "antonyms", "opposite", "opposites", "contrast"}

\* pattern.test(query), for a pattern with the i flag that matches in words
PatternTest(words, q) == \E n \in 1..Len(q) : toLowerCase(q[n]) \in words

\* the generic terms pushed when the query asks and the local list is empty
PlaceholderSynonyms == <<"equivalent", "alternate term", "parallel wording">>
PlaceholderAntonyms == <<"opposite", "inverse term", "counter meaning">>

\* the loop of mergeLexicalCoverage over the keywords: the list gathered from
\* the presets of the first n keywords (field is "synonyms" or "antonyms")
RECURSIVE FallbackList(_, _, _)
FallbackList(keywords, field, n) ==
    IF n = 0 THEN <<>>
    ELSE FallbackList(keywords, field, n - 1)
         \o (IF keywords[n] \in DOMAIN LEXICAL_FALLBACKS
             THEN LEXICAL_FALLBACKS[keywords[n]][field]
             ELSE <<>>)

\* term.trim(), for the terms that carry white space at their ends
trim(term) ==
    CASE term = " seat " -> "seat"
      [] term = " " -> ""
      [] OTHER -> term

\* unique: the terms trimmed, the empty ones dropped, each kept where it
\* first stands
unique(values) ==
    LET terms == [n \in 1..Len(values) |-> [at |-> n, term |-> trim(values[n])]]
        kept == SelectSeq(terms, LAMBDA e :
                    /\ e.term # ""
                    /\ \A k \in 1..(e.at - 1) : trim(values[k]) # e.term)
    IN  [n \in 1..Len(kept) |-> kept[n].term]

\* values.slice(0, 8)
FirstEight(values) == SubSeq(values, 1, IF Len(values) < 8 THEN Len(values) ELSE 8)

\* the placeholder test of mergeLexicalCoverage: the query asks and the local
\* list is empty
Inject(asks, reported, fallback) == asks /\ fallback = <<>>

\* mergeLexicalCoverage(query, synonyms, antonyms).  For a keyword that names
\* an inherited property, preset passes the !preset test and
\* push(...preset.synonyms) spreads undefined, which throws a TypeError
mergeLexicalCoverage(q, synonyms, antonyms) ==
    LET keywords == extractLexicalKeywords(q)
        found == FallbackList(keywords, "synonyms", Len(keywords))
        foundOpposite == FallbackList(keywords, "antonyms", Len(keywords))
        fallbackSynonyms == IF Inject(PatternTest(SynonymWords, q), synonyms, found)
                            THEN PlaceholderSynonyms ELSE found
        fallbackAntonyms == IF Inject(PatternTest(AntonymWords, q), antonyms, foundOpposite)
                            THEN PlaceholderAntonyms ELSE foundOpposite
    IN  IF \E n \in 1..Len(keywords) :
              keywords[n] \notin DOMAIN LEXICAL_FALLBACKS
              /\ keywords[n] \in ObjectPrototypeNames
        THEN [kind |-> "TypeError", synonyms |-> <<>>, antonyms |-> <<>>]
        ELSE [kind |-> "merged",
              synonyms |-> FirstEight(unique(synonyms \o fallbackSynonyms)),
              antonyms |-> FirstEight(unique(antonyms \o fallbackAntonyms))]

\* AdaEngine.process after its try statement, which left the evaluation ev
\* and the error message aiError: the result it returns, or the exception
\* that leaves it (mergeLexicalCoverage is called outside the try statement)
AdaGovern(ev, aiError, q, cx) ==
    LET lexical == mergeLexicalCoverage(q, ev.synonyms, ev.antonyms)
    IN  IF lexical.kind = "TypeError"
        THEN Raised([head |-> "TypeError: undefined is not iterable", lines |-> NoErrors])
        ELSE [AdaResult(ev, aiError, cx) EXCEPT
                 !.lexical = [synonyms |-> lexical.synonyms, antonyms |-> lexical.antonyms]]

\* AdaEngine.process from the end of callFreeAI (r) to its own end
AdaProcessEnd(r, q, cx) ==
    LET e == AdaEvaluate(r, q)
    IN  AdaGovern(e.evalData, e.aiError, q, cx)

RECURSIVE JsonStringify(_)
\* JSON.stringify of the recent history, as the pieces of its text
JsonStringify(h) ==
    IF h = <<>> THEN <<>>
    ELSE <<"{role:", Head(h).role, "parts:">> \o Head(h).parts \o <<"}">>
         \o JsonStringify(Tail(h))

\* history.slice(-6)
RecentHistory(h) == IF Len(h) <= 6 THEN h ELSE SubSeq(h, Len(h) - 5, Len(h))

\* now.toLocaleString(): the date and time of day, to the second
toLocaleString(t) == ToString(t \div 1000)

\* the messages process sends at time t
AdaMessages(q, h, cx, t) ==
    << [role |-> "system",
        content |-> <<"You are Ada. Return strict JSON only, no code fences. Keep values concise and grounded.">>],
       [role |-> "user",
        content |-> <<"TEMPORAL CONTEXT:", toLocaleString(t), "COMPLEXITY LEVEL:", cx,
                      "SESSION HISTORY: [">> \o JsonStringify(RecentHistory(h))
                    \o <<"] USER INPUT:">> \o q \o <<"GOVERNANCE PROTOCOL, RESPONSE FORMAT">>] >>

(***************************************************************************)
(* callFreeAI: where the control goes next.  A step is                     *)
(*   [do |-> "request", a |-> attempt]   issue the request of attempt a    *)
(*   [do |-> "sleep", a |-> attempt, d |-> ms]  sleep d, then attempt a    *)
(*   [do |-> "throw"]                    throw the aggregated error        *)
(***************************************************************************)
Request(a) == [do |-> "request", a |-> a, d |-> 0]
Sleep(a, d) == [do |-> "sleep", a |-> a, d |-> d]
Throw == [do |-> "throw", a |-> NoAttempt, d |-> 0]

\* the GET fallback loop, entered after the POST loops
FirstGet == IF Len(getFallbacks) >= 1 THEN Request(Get(1, 1, 1)) ELSE Throw

\* the first (endpoint, model) pair at or after endpoint e
RECURSIVE PostFrom(_)
PostFrom(e) ==
    IF e > Len(allEndpoints) THEN FirstGet
    ELSE IF Len(allEndpoints[e].models) >= 1 THEN Request(Post(e, 1, 1))
    ELSE PostFrom(e + 1)

\* variant of NextModel that leaves the endpoint with its first failed model
NextModelSkip(e, m) == PostFrom(e + 1)

\* leaving the retry loop of (e, m): the next model, else the next endpoint
NextModel(e, m) ==
    IF m < Len(allEndpoints[e].models) THEN Request(Post(e, m + 1, 1))
    ELSE PostFrom(e + 1)

\* variant of the catch block whose delays add up: 800, 2400, ...
AfterPostFailureCumulative(e, m, n, err) ==
    IF ~AIRequestErrorRetryable(err.status) THEN NextModel(e, m)
    ELSE IF n - 1 = MaxRetries THEN NextModel(e, m)
    ELSE Sleep(Post(e, m, n + 1), BaseDelayMs * (Pow2(n) - 1))

\* the catch block of the POST retry loop, attempt number n (1-based) failed
AfterPostFailure(e, m, n, err) ==
    IF ~AIRequestErrorRetryable(err.status) THEN NextModel(e, m)
    ELSE IF n - 1 = MaxRetries THEN NextModel(e, m)
    ELSE Sleep(Post(e, m, n + 1), BaseDelayMs * Pow2(n - 1))

\* variant of the GET catch block that gives up with the first fallback
AfterGetFailureThrowEarly(g, n) ==
    IF n < GetAttempts THEN Sleep(Get(g, 1, n + 1), BaseDelayMs) ELSE Throw

\* variant of the GET catch block that repeats the failed attempt
AfterGetFailureAgain(g, n) == Sleep(Get(g, 1, n), BaseDelayMs)


\* the catch block of the GET loop, attempt number n (1-based) of fallback g failed
AfterGetFailure(g, n) ==
    IF n < GetAttempts THEN Sleep(Get(g, 1, n + 1), BaseDelayMs)
    ELSE IF g < Len(getFallbacks) THEN Request(Get(g + 1, 1, 1))
    ELSE Throw

\* the entry written for a failed POST attempt
PostErrorLine(a, err) == ErrorLine(allEndpoints[a.i].label, a, err.message)

CallIdle ==
    /\ pc = "idle"
    /\ cur = NoAttempt
    /\ messages = <<>>
    /\ useCache = FALSE
    /\ errors = NoErrors
    /\ delay = 0
    /\ aborted = FALSE
    /\ inflight = {}
    /\ abandoned = {}
    /\ ret = NoRet
    /\ puterAvailable \in BOOLEAN
    /\ issued = NoAttempt
    /\ failure = NoFailure
    /\ calls = 0
    /\ unreported = {}
    /\ caller = "none"
    /\ query = <<>>
    /\ complexity = ""
    /\ result = NoResult
    /\ parsed = EmptyEvaluation
    /\ evalData = EmptyEvaluation
    /\ repeated = FALSE

(***************************************************************************)
(* callFreeAI: the steps.  One action runs the code from one suspension    *)
(* point (await) to the next.                                              *)
(***************************************************************************)
\* continue with step nx, the errors array being errs and the requests in
\* flight infl
Goto(nx, errs, infl) ==
    /\ errors' = errs
    /\ \/ /\ nx.do = "request"
          /\ pc' = "request"
          /\ cur' = nx.a
          /\ inflight' = infl \cup {nx.a}
          /\ issued' = nx.a
          /\ delay' = 0
          /\ UNCHANGED ret
       \/ /\ nx.do = "sleep"
          /\ pc' = "sleep"
          /\ cur' = nx.a
          /\ delay' = nx.d
          /\ inflight' = infl
          /\ UNCHANGED <<issued, ret>>
       \/ /\ nx.do = "throw"
          /\ pc' = "done"
          /\ cur' = NoAttempt
          /\ ret' = Thrown(errs)
          /\ inflight' = infl
          /\ delay' = 0
          /\ UNCHANGED issued

\* variant of the successful return that never stores the result
SucceedNoStore(content, src, infl) ==
    /\ pc' = "done"
    /\ cur' = NoAttempt
    /\ ret' = Returned(content, src)
    /\ inflight' = infl
    /\ cache' = cache
    /\ UNCHANGED <<issued, delay>>
    /\ errors' = NoErrors

\* variant of the success path that stores the text whatever useCache says
SucceedAlwaysStore(content, src, infl) ==
    /\ pc' = "done"
    /\ cur' = NoAttempt
    /\ ret' = Returned(content, src)
    /\ inflight' = infl
    /\ cache' = QueryCacheSet(cache, makeKey(messages), content, now, maxSize)
    /\ UNCHANGED <<issued, delay>>
    /\ errors' = NoErrors

\* return content; a successful resolution is stored when useCache is set
Succeed(content, src, infl) ==
    /\ pc' = "done"
    /\ cur' = NoAttempt
    /\ ret' = Returned(content, src)
    /\ inflight' = infl
    /\ cache' = IF useCache
                THEN QueryCacheSet(cache, makeKey(messages), content, now, maxSize)
                ELSE cache
    /\ UNCHANGED <<issued, delay>>
    /\ errors' = NoErrors

\* callFreeAI(ms, uc) up to its first suspension: the cache lookup, then the
\* first native model (or the POST loop when the SDK is missing)
CallStart(ms, uc) ==
    LET key == makeKey(ms)
        cached == IF uc THEN QueryCacheGetResult(cache, key, now, ttlMs) ELSE Null
    IN  /\ pc = "idle"
        /\ messages' = ms
        /\ useCache' = uc
        /\ calls' = calls + 1
        /\ failure' = NoFailure
        /\ aborted' = FALSE
        /\ abandoned' = {}
        /\ unreported' = {}
        /\ cache' = IF uc THEN QueryCacheGetMap(cache, key, now, ttlMs) ELSE cache
        /\ IF cached # Null
           THEN /\ pc' = "done"
                /\ cur' = NoAttempt
                /\ ret' = Returned(cached, "cache")
                /\ errors' = NoErrors
                /\ delay' = 0
                /\ issued' = NoAttempt
                /\ inflight' = {}
           ELSE /\ delay' = 0
                /\ ret' = NoRet
                /\ IF puterAvailable /\ Len(PuterModels) >= 1
                   THEN /\ pc' = "request"
                        /\ cur' = Native(1)
                        /\ errors' = NoErrors
                        /\ inflight' = {Native(1)}
                        /\ issued' = Native(1)
                   ELSE LET msg == IF puterAvailable THEN <<"", "All Puter.js models failed">>
                                   ELSE <<"", "Puter.js SDK not available">>
                            nx == PostFrom(1)
                        IN  /\ errors' = Push(NoErrors, ErrorLine("Puter.js", NoAttempt, msg))
                            /\ pc' = IF nx.do = "throw" THEN "done" ELSE "request"
                            /\ cur' = nx.a
                            /\ inflight' = IF nx.do = "throw" THEN {} ELSE {nx.a}
                            /\ issued' = nx.a

\* the Promise.race of tryPuterAI settles with outcome o
PuterSettle(o) ==
    /\ pc = "request"
    /\ cur.tier = "native"
    /\ LET content == PuterContent(o)
           infl == inflight \ {cur}
       IN  IF content # ""
           THEN /\ Succeed(content, "native", infl)
                /\ failure' = NoFailure
                /\ UNCHANGED <<aborted, unreported>>
           ELSE /\ failure' = Failure(cur, o, 0, PuterError(o))
                \* the reason goes to console.warn, or nowhere when no text came
                /\ unreported' = unreported \cup {cur}
                /\ IF cur.i < Len(PuterModels)
                   THEN Goto(Request(Native(cur.i + 1)), errors, infl)
                   ELSE Goto(PostFrom(1),
                             Push(errors, ErrorLine("Puter.js", NoAttempt, <<"", "All Puter.js models failed">>)),
                             infl)
                /\ UNCHANGED <<cache, aborted>>
    \* the chat call that lost the race against the timer is not cancelled
    /\ abandoned' = IF o.kind = "timeout" THEN abandoned \cup {cur} ELSE abandoned
    /\ UNCHANGED <<maxSize, ttlMs, now, ticks, messages, useCache, puterAvailable, calls>>
    /\ UNCHANGED callerVars
    /\ UNCHANGED obsVars

\* a native chat call that was abandoned at its timeout settles later; its
\* result is dropped
LateSettle ==
    /\ \E a \in abandoned : abandoned' = abandoned \ {a}
    /\ UNCHANGED <<pc, cur, messages, useCache, errors, delay, aborted, inflight, ret,
                   puterAvailable, issued, failure, calls, unreported>>
    /\ UNCHANGED cacheVars
    /\ UNCHANGED callerVars
    /\ UNCHANGED obsVars

\* the sleep before a retry is over: the request of the attempt is issued
SleepDone ==
    /\ pc = "sleep"
    /\ pc' = "request"
    /\ inflight' = inflight \cup {cur}
    /\ issued' = cur
    /\ aborted' = FALSE
    /\ delay' = 0
    /\ failure' = NoFailure
    /\ UNCHANGED <<cur, messages, useCache, errors, abandoned, ret, puterAvailable, calls,
                   unreported>>
    /\ UNCHANGED cacheVars
    /\ UNCHANGED callerVars
    /\ UNCHANGED obsVars

\* tryPostEndpoint settles with outcome o
PostSettle(o) ==
    /\ pc = "request"
    /\ cur.tier = "post"
    /\ LET infl == inflight \ {cur}
           err == PostError(o)
       IN  IF HttpOk(o) /\ extractAIContent(o) # ""
           THEN /\ Succeed(extractAIContent(o), "post", infl)
                /\ failure' = NoFailure
           ELSE /\ failure' = Failure(cur, o, err.status, err.message)
                /\ Goto(AfterPostFailure(cur.i, cur.j, cur.n, err),
                        Push(errors, PostErrorLine(cur, err)), infl)
                /\ UNCHANGED cache
    /\ aborted' = FALSE
    /\ UNCHANGED <<maxSize, ttlMs, now, ticks, messages, useCache, abandoned,
                   puterAvailable, calls, unreported>>
    /\ UNCHANGED callerVars
    /\ UNCHANGED obsVars

\* one fetch of a GET fallback settles with outcome o; the two URLs of the
\* legacy fallback share the abort signal of the attempt
GetSettle(o) ==
    /\ pc = "request"
    /\ cur.tier = "get"
    /\ aborted => o.kind = "abort"
    /\ LET infl == inflight \ {cur}
           err == GetError(cur.i, o)
           name == getFallbacks[cur.i].name
       IN  IF HttpOk(o) /\ extractAIContent(o) # ""
           THEN /\ Succeed(extractAIContent(o), "get", infl)
                /\ failure' = NoFailure
                /\ UNCHANGED <<aborted, unreported>>
           ELSE /\ failure' = Failure(cur, o, err.status, err.message)
                /\ IF cur.j < getFallbacks[cur.i].urls
                   THEN \* not the last URL: the error is dropped, the next URL is tried
                        /\ Goto(Request(Get(cur.i, cur.j + 1, cur.n)), errors, infl)
                        /\ aborted' = (o.kind = "abort")
                        /\ unreported' = unreported \cup {cur}
                   ELSE /\ Goto(AfterGetFailure(cur.i, cur.n),
                                Push(errors, ErrorLine(name, Get(cur.i, 0, cur.n), err.message)), infl)
                        /\ aborted' = FALSE
                        /\ UNCHANGED unreported
                /\ UNCHANGED cache
    /\ UNCHANGED <<maxSize, ttlMs, now, ticks, messages, useCache, abandoned,
                   puterAvailable, calls>>
    /\ UNCHANGED callerVars
    /\ UNCHANGED obsVars

\* the activation is over: the await of the caller resumes
CallEnd ==
    /\ pc = "done"
    /\ pc' = "idle"
    /\ UNCHANGED <<cur, messages, useCache, errors, delay, aborted, inflight, abandoned,
                   ret, puterAvailable, issued, failure, calls, unreported>>
    /\ UNCHANGED cacheVars
    /\ UNCHANGED obsVars

(***************************************************************************)
(* Inputs of the cache-only specification.                                 *)
(***************************************************************************)
TestKeys == { <<"key1">>, <<"key2">>, <<"key3">> }
TestValues == {"value1", "value2"}

\* no call of WordMechanics.analyze was made yet
NoAnalysis ==
    [word |-> <<>>, glyphs |-> <<>>, profile |-> "",
     stats |-> [key \in {"stability", "containment", "energy", "flow", "stop", "alignment"}
                   |-> 0]]

\* the SemanticSolver component as mounted: useState(''), useState(null),
\* useState(false); no handleProcess activation.  result.run is the
\* submission the displayed result came from (0 for null)
NoSolver ==
    [query |-> <<>>, result |-> [run |-> 0, value |-> NoResult], isProcessing |-> FALSE,
     runs |-> {}, submitted |-> 0]


NoOp == [name |-> "none", key |-> <<>>, value |-> Null, result |-> Null,
         stored |-> FALSE, age |-> 0, before |-> <<>>]

\* cache.set(key, value) on a QueryCache
CacheSet(k, v) ==
    /\ ops < MaxOps
    /\ cache' = QueryCacheSet(cache, k, v, now, maxSize)
    /\ op' = [name |-> "set", key |-> k, value |-> v, result |-> Null,
              stored |-> CacheHas(cache, k), age |-> 0, before |-> CacheKeySeq(cache)]
    /\ ops' = ops + 1
    /\ setLog' = Append(setLog, k)
    /\ UNCHANGED <<maxSize, ttlMs, now, ticks, hits, getDeletes, mechanics, pending,
                   solver>>
    /\ UNCHANGED callVars

\* cache.get(key) on a QueryCache; the observation records the entry's age
CacheGet(k) ==
    /\ ops < MaxOps
    /\ cache' = QueryCacheGetMap(cache, k, now, ttlMs)
    /\ op' = [name |-> "get", key |-> k,
              value |-> IF CacheHas(cache, k) THEN CacheEntry(cache, k).value ELSE Null,
              result |-> QueryCacheGetResult(cache, k, now, ttlMs),
              stored |-> CacheHas(cache, k),
              age |-> IF CacheHas(cache, k) THEN now - CacheEntry(cache, k).timestamp ELSE 0,
              before |-> CacheKeySeq(cache)]
    /\ ops' = ops + 1
    /\ hits' = IF QueryCacheGetResult(cache, k, now, ttlMs) # Null THEN hits + 1 ELSE hits
    /\ getDeletes' = IF Len(cache') < Len(cache) THEN getDeletes + 1 ELSE getDeletes
    /\ UNCHANGED <<maxSize, ttlMs, now, ticks, setLog, mechanics, pending, solver>>
    /\ UNCHANGED callVars

\* the wall clock advances by d milliseconds.  The clock is read by the cache
\* lookup that opens an activation and by the store that closes it, and only
\* the age of a stored entry is ever computed from it: the advances are taken
\* between activations, while the cache holds an entry
Tick(d) ==
    /\ pc = "idle"
    /\ cache # <<>>
    /\ ticks < MaxTicks
    /\ now' = now + d
    /\ ticks' = ticks + 1
    /\ UNCHANGED <<cache, maxSize, ttlMs, op, ops, setLog, hits, getDeletes, mechanics,
                   pending, solver>>
    /\ UNCHANGED callVars

\* a QueryCache constructed with (maxSize, ttlMs), as the tests construct it
InitCache ==
    /\ cache = <<>>
    /\ maxSize \in 1..MaxCacheSize
    /\ ttlMs \in 1..MaxTtl
    /\ now = 0
    /\ ticks = 0
    /\ op = NoOp
    /\ ops = 0
    /\ setLog = <<>>
    /\ hits = 0
    /\ getDeletes = 0
    /\ mechanics = NoAnalysis
    /\ pending = {}
    /\ solver = NoSolver
    /\ CallIdle

NextCache ==
    \/ \E k \in TestKeys, v \in TestValues : CacheSet(k, v)
    \/ \E k \in TestKeys : CacheGet(k)
    \/ Tick(1)

SpecCache == InitCache /\ [][NextCache]_vars

(***************************************************************************)
(* Properties of QueryCache (checked under SpecCache).                     *)
(***************************************************************************)
\* the keys passed to set so far are pairwise distinct
DistinctSets == \A i, j \in 1..Len(setLog) : i # j => setLog[i] # setLog[j]

\* C9: once maxSize + 1 distinct keys have been set (and no entry expired),
\* the cache holds exactly the keys set after the first one, in the order
\* they were set: the extra set removed the first-inserted key and no other,
\* whatever get calls hit in between.
C9_EvictsFirstInserted ==
    (Len(setLog) = maxSize + 1 /\ DistinctSets /\ getDeletes = 0)
        => CacheKeySeq(cache) = [i \in 1..maxSize |-> setLog[i + 1]]

\* C9 witness: a full cache of maxSize > 1 keys was read with a hit, and the
\* set of one more distinct key has just evicted
C9_Witness ==
    /\ op.name = "set"
    /\ maxSize = MaxCacheSize
    /\ Len(setLog) = maxSize + 1
    /\ DistinctSets
    /\ getDeletes = 0
    /\ hits > 0
    /\ Len(op.before) = maxSize
    /\ ~CacheHas(cache, setLog[1])

\* C10 as stated: get returns the stored value exactly while the age of the
\* entry is strictly below the TTL; from age = TTL on it returns null and the
\* entry is gone after the read.
C10_StrictlyBelowTtl ==
    (op.name = "get" /\ op.stored) =>
        /\ (op.age < ttlMs => op.result = op.value)
        /\ (op.age >= ttlMs => op.result = Null /\ ~CacheHas(cache, op.key))

\* C10 amended: get returns the stored value while the age of the entry is at
\* most the TTL (the entry stays, the map is unchanged); once the age exceeds
\* the TTL it returns null and that read removes the entry.
C10_ExpiresAfterTtl ==
    (op.name = "get" /\ op.stored) =>
        /\ (op.age <= ttlMs => op.result = op.value /\ CacheKeySeq(cache) = op.before)
        /\ (op.age > ttlMs =>
               /\ op.result = Null
               /\ ~CacheHas(cache, op.key)
               /\ Len(cache) = Len(op.before) - 1)

\* C10 witness: an entry read at the very age of a positive TTL is returned
C10_Witness ==
    /\ op.name = "get"
    /\ op.stored
    /\ ttlMs > 0
    /\ op.age = ttlMs
    /\ op.result = op.value
    /\ CacheHas(cache, op.key)

(***************************************************************************)
(* The resolution pipeline over the shared queryCache singleton.           *)
(***************************************************************************)
\* number of callFreeAI activations explored in one behaviour
MaxCalls == 2
MaxAdaCalls == 1

DirectMessages ==
    { << [role |-> "system", content |-> <<"You are a helpful assistant.">>],
         [role |-> "user", content |-> <<"hello">>] >> }

\* a caller invokes callFreeAI(ms, uc) and awaits it
DirectCall(ms, uc) ==
    /\ calls < MaxCalls
    /\ CallStart(ms, uc)
    /\ caller' = "direct"
    /\ query' = <<>>
    /\ complexity' = ""
    /\ result' = NoResult
    /\ UNCHANGED <<maxSize, ttlMs, now, ticks, puterAvailable, parsed, evalData, repeated>>
    /\ UNCHANGED obsVars

\* the call of that caller is over
DirectReturn ==
    /\ caller = "direct"
    /\ CallEnd
    /\ UNCHANGED callerVars

\* AdaEngine.process(q, h, cx) up to its await of callFreeAI
AdaProcess(q, h, cx) ==
    /\ calls < MaxAdaCalls
    /\ CallStart(AdaMessages(q, h, cx, now), TRUE)
    /\ caller' = "ada"
    /\ query' = q
    /\ complexity' = cx
    /\ result' = NoResult
    /\ parsed' = EmptyEvaluation
    /\ evalData' = normalizeEvaluation(EmptyEvaluation, q)
    /\ UNCHANGED <<maxSize, ttlMs, now, ticks, puterAvailable, repeated>>
    /\ UNCHANGED obsVars

\* AdaEngine.process from the end of callFreeAI to its return
AdaReturn ==
    /\ caller = "ada"
    /\ CallEnd
    /\ result' = AdaProcessEnd(ret, query, complexity)
    /\ parsed' = AdaEvaluate(ret, query).parsed
    /\ evalData' = AdaEvaluate(ret, query).evalData
    /\ UNCHANGED <<caller, query, complexity, repeated>>

\* KinematicEngine.process(q): Tier 1, else Tier 2, else up to the await of
\* callFreeAI in matchTier3
KinematicProcess(q) ==
    /\ pc = "idle"
    /\ caller' = "kinematic"
    /\ query' = q
    /\ complexity' = ""
    /\ UNCHANGED <<parsed, evalData, repeated>>
    /\ IF KinematicResolution[q].tier = 3
       THEN /\ calls < MaxCalls
            /\ CallStart(KinematicMessages(q), TRUE)
            /\ result' = NoResult
            /\ UNCHANGED <<maxSize, ttlMs, now, ticks, puterAvailable>>
       ELSE /\ result' = IF KinematicResolution[q].tier = 1
                         THEN KinematicResolution[q].tier1
                         ELSE KinematicResolution[q].tier2
            /\ UNCHANGED <<pc, cur, messages, useCache, errors, delay, aborted, inflight,
                           abandoned, ret, puterAvailable, issued, failure, calls,
                           unreported>>
            /\ UNCHANGED cacheVars
    /\ UNCHANGED obsVars

\* matchTier3 from the end of callFreeAI to the return of process
KinematicReturn ==
    /\ caller = "kinematic"
    /\ CallEnd
    /\ result' = matchTier3(ret)
    /\ UNCHANGED <<caller, query, complexity, parsed, evalData, repeated>>

Init ==
    /\ cache = <<>>
    /\ maxSize = CacheMaxSize
    /\ ttlMs = CacheTtlMs
    /\ now = 0
    /\ ticks = 0
    /\ op = NoOp
    /\ ops = 0
    /\ setLog = <<>>
    /\ hits = 0
    /\ getDeletes = 0
    /\ mechanics = NoAnalysis
    /\ pending = {}
    /\ solver = NoSolver
    /\ CallIdle

\* the steps of a callFreeAI activation after its start
ChainStep ==
    \/ \E o \in PuterOutcomes : PuterSettle(o)
    \/ LateSettle
    \/ SleepDone
    \/ \E o \in HttpOutcomes : PostSettle(o)
    \/ \E o \in HttpOutcomes : GetSettle(o)

\* callFreeAI called directly
Next ==
    \/ \E ms \in DirectMessages, uc \in BOOLEAN : DirectCall(ms, uc)
    \/ DirectReturn
    \/ ChainStep
    \/ Tick(1)
    \/ Tick(CacheTtlMs)

Spec == Init /\ [][Next]_vars

\* callFreeAI called directly, every awaited attempt and every sleep settling
\* (a response, a rejection, or the timeout of the attempt)
SpecSettling == Init /\ [][Next]_vars /\ WF_vars(ChainStep)

\* queries resolved by AdaEngine
NextAda ==
    \/ \E q \in AdaQueries, h \in Histories, cx \in Complexities : AdaProcess(q, h, cx)
    \/ AdaReturn
    \/ ChainStep
    \/ Tick(1)
    \/ Tick(CacheTtlMs)

SpecAda == Init /\ [][NextAda]_vars

\* queries resolved by KinematicEngine
NextKinematic ==
    \/ \E q \in Queries : KinematicProcess(q)
    \/ KinematicReturn
    \/ ChainStep
    \/ Tick(1)
    \/ Tick(CacheTtlMs)

SpecKinematic == Init /\ [][NextKinematic]_vars

(***************************************************************************)
(* The governance calculus of AdaEngine.process, applied to the            *)
(* evaluations its try statement can leave.                                *)
(***************************************************************************)
\* number of resolutions explored in one behaviour
MaxResolutions == 2

\* correctness and misconception of an evaluation, in hundredths: values at
\* and next to the thresholds of the calculus
CorrectnessLevels == {0, 49, 50, 62, 69, 70, 71, 76, 100}
MisconceptionLevels == {0, 5, 30, 40, 41, 50, 94, 95, 100}

\* the action field of an evaluation
EvaluationActions == { <<"RESPOND">>, <<"CLARIFY">> }

\* the queries resolved: those of AdaQueries, one that no misconception
\* pattern matches, and two that two patterns of different probabilities match
\* (the fifth before the twelfth, the fourth before the eighth)
GovernanceQueries ==
    AdaQueries \cup { <<"tell", "me", "about", "quasars">>,
                      <<"obviously", "a", "myth">>,
                      <<"does", "everyone", "compare">> }

\* the message of the error callFreeAI throws
AggregatedMessage ==
    Thrown(Push(NoErrors, ErrorLine("Legacy GET fallback", Get(2, 0, GetAttempts),
                                    <<"", "The operation was aborted">>))).message

\* what the try statement of process leaves for query q: the normalized
\* evaluation a provider's answer was parsed to, with no error, or the
\* fallback evaluation of the catch block with the message of the error
TryOutcomes ==
    [q \in GovernanceQueries |->
        { [parsed |-> [EmptyEvaluation EXCEPT !.correctness = Num(c),
                                              !.misconception = Num(m), !.action = Str(a)],
           evalData |-> normalizeEvaluation(
                            [EmptyEvaluation EXCEPT !.correctness = Num(c),
                                                    !.misconception = Num(m),
                                                    !.action = Str(a)], q),
           aiError |-> NoError] :
            c \in CorrectnessLevels, m \in MisconceptionLevels, a \in EvaluationActions }
        \cup { AdaCatch(AggregatedMessage, q) }]

\* the inputs of the calculus that a returned result carries
GovernanceInputs(r) ==
    [c |-> r.csv.c, m |-> r.csv.m, action |-> r.action, failed |-> r.error # NoError]

\* what process ends with after its try statement, for each query, each
\* complexity and each outcome of the try statement
GovernanceEnds ==
    [q \in GovernanceQueries |-> [cx \in Complexities |-> [e \in TryOutcomes[q] |->
        AdaGovern(e.evalData, e.aiError, q, cx)]]]

\* AdaEngine.process(q, h, cx) whose try statement left e
AdaResolve(q, cx, e) ==
    /\ pc = "idle"
    /\ calls < MaxResolutions
    /\ calls' = calls + 1
    /\ caller' = "ada"
    /\ query' = q
    /\ complexity' = cx
    /\ result' = GovernanceEnds[q][cx][e]
    /\ parsed' = e.parsed
    /\ evalData' = e.evalData
    /\ repeated' = /\ result.kind = "result"
                   /\ result'.kind = "result"
                   /\ GovernanceInputs(result') = GovernanceInputs(result)
    /\ UNCHANGED <<pc, cur, messages, useCache, errors, delay, aborted, inflight,
                   abandoned, ret, puterAvailable, issued, failure, unreported>>
    /\ UNCHANGED cacheVars
    /\ UNCHANGED obsVars

NextGovernance ==
    \E q \in GovernanceQueries :
        \E e \in TryOutcomes[q] : AdaResolve(q, "STANDARD", e)

SpecGovernance == Init /\ [][NextGovernance]_vars

(***************************************************************************)
(* The try statement of AdaEngine.process alone: parseJsonBlock,           *)
(* parseLooselyStructuredResponse and normalizeEvaluation applied to the   *)
(* texts a provider can answer with and to the objects a parse can give.   *)
(***************************************************************************)
EvaluationQueries == { <<"test">>, <<>> }

\* what callFreeAI ends with: one of the texts, or the aggregated error
EvaluationReturns ==
    { Returned(EvaluationTexts[n].text, "puter") : n \in 1..Len(EvaluationTexts) }
    \cup { Thrown(Push(NoErrors, ErrorLine("Legacy GET fallback", Get(2, 0, GetAttempts),
                                           <<"", "The operation was aborted">>))) }

\* the objects normalizeEvaluation is given: each field absent, null, of its
\* own type, of another type, out of range or longer than eight items
PartialInputs ==
    [synonyms : {Undefined, Str(<<"seat">>),
                 Arr(<<"a", "b", "c", "d", "e", "f", "g", "h", "i">>)},
     antonyms : {Undefined},
     entity : {Undefined, Str(<<>>), Str(<<"France">>), NoPrimitive},
     action : {Undefined, Str(<<"MAYBE">>)},
     correctness : {Undefined, JsonNull, Num(90), Num(170), Str(<<"high">>)},
     misconception : {Undefined, Str(<<"high">>)},
     equation : {Undefined},
     response : {Undefined}]

\* the evaluation e was left by the try statement of process(q, ...), in
\* which callFreeAI had ended with r
AdaTried(q, r, e) ==
    /\ pc = "idle"
    /\ calls < MaxResolutions
    /\ calls' = calls + 1
    /\ caller' = "ada"
    /\ query' = q
    /\ ret' = r
    /\ parsed' = e.parsed
    /\ evalData' = e.evalData
    /\ UNCHANGED <<pc, cur, messages, useCache, errors, delay, aborted, inflight,
                   abandoned, puterAvailable, issued, failure, unreported,
                   complexity, result, repeated>>
    /\ UNCHANGED cacheVars
    /\ UNCHANGED obsVars

\* lines 246-275 of process for what callFreeAI ended with
AdaTry(q, r) == AdaTried(q, r, AdaEvaluate(r, q))

\* line 256 of process for the object the parsers gave
AdaTryParsed(q, partial) == AdaTried(q, NoRet, AdaNormalize(partial, q))

NextEvaluation ==
    \/ \E q \in EvaluationQueries, r \in EvaluationReturns : AdaTry(q, r)
    \/ \E q \in EvaluationQueries, partial \in PartialInputs : AdaTryParsed(q, partial)

SpecEvaluation == Init /\ [][NextEvaluation]_vars

(***************************************************************************)
(* AdaEngine.process as one step, from the answer of the provider chain to *)
(* the SearchResult, with the clock moving while the ledger is written.    *)
(***************************************************************************)
ProcessQueries ==
    EvaluationQueries
    \cup { <<"capital", "of", "france">>, <<"Synonyms", "of", "glad">>,
           <<"opposite", "of", "truth">> }

\* what callFreeAI ends with, where the evaluation has numbers for its
\* correctness and misconception (the calculus over NaN is not explored)
ProcessReturns ==
    { r \in EvaluationReturns :
        \A q \in ProcessQueries :
            NaN \notin { AdaEvaluate(r, q).evalData.correctness,
                         AdaEvaluate(r, q).evalData.misconception } }

\* how far Date.now() moves (ms) before each of the six addStep calls
ClockAdvances ==
    { Instant, <<0, 0, 1, 0, 0, 1>> }

\* the try statement of process for each query and each end of callFreeAI
ProcessEvaluations ==
    [q \in ProcessQueries |-> [r \in ProcessReturns |-> AdaEvaluate(r, q)]]

\* what process ends with after its try statement, for each query, each end
\* of callFreeAI and each complexity
ProcessEnds ==
    [q \in ProcessQueries |-> [r \in ProcessReturns |-> [cx \in Complexities |->
        AdaGovern(AdaEvaluate(r, q).evalData, AdaEvaluate(r, q).aiError, q, cx)]]]

\* AdaEngine.process(q, h, cx), in which callFreeAI ended with r
AdaRun(q, cx, r, advances) ==
    LET e == ProcessEvaluations[q][r]
        end == ProcessEnds[q][r][cx]
    IN  /\ pc = "idle"
        /\ calls < MaxResolutions
        /\ calls' = calls + 1
        /\ caller' = "ada"
        /\ query' = q
        /\ complexity' = cx
        /\ ret' = r
        /\ parsed' = e.parsed
        /\ evalData' = e.evalData
        /\ result' = IF end.kind = "result"
                     THEN [end EXCEPT !.ledger = AdaLedger(advances)]
                     ELSE end
        /\ now' = now + SinceLedgerStart(advances, Len(advances))
        /\ UNCHANGED <<pc, cur, messages, useCache, errors, delay, aborted, inflight,
                       abandoned, puterAvailable, issued, failure, unreported, repeated>>
        /\ UNCHANGED <<cache, maxSize, ttlMs, ticks>>
        /\ UNCHANGED obsVars

NextProcess ==
    \E q \in ProcessQueries, cx \in Complexities, r \in ProcessReturns,
       advances \in ClockAdvances : AdaRun(q, cx, r, advances)

SpecProcess == Init /\ [][NextProcess]_vars

(***************************************************************************)
(* WordMechanics.analyze (services/kinematicEngine.ts).                    *)
(***************************************************************************)
\* length of the longest word analysed
MaxWordLen == 4

\* the counters of MechanicalStats
StatKeys == {"stability", "containment", "energy", "flow", "stop", "alignment"}

\* GLYPH_DB: the physics of each letter, as the stats key it counts under
\* (g.physics.toLowerCase())
GLYPH_DB ==
    [c \in {"A", "H", "M"} |-> "stability"]
    @@ [c \in {"B", "D", "G", "O", "Q", "U"} |-> "containment"]
    @@ [c \in {"E", "F", "P", "R", "W"} |-> "energy"]
    @@ [c \in {"C", "J", "L", "N", "S"} |-> "flow"]
    @@ [c \in {"K", "T", "X"} |-> "stop"]
    @@ [c \in {"I", "V", "Y", "Z"} |-> "alignment"]

\* the characters of the words analysed: a letter of each physics, a lower
\* case letter and a digit
WordCharacters == {"A", "B", "E", "C", "K", "I", "t", "1"}

\* String.prototype.toUpperCase on one character
toUpperCase(c) == IF c = "t" THEN "T" ELSE c

\* word.toUpperCase().replace(/[^A-Z]/g, '')
cleanWord(word) ==
    SelectSeq([n \in 1..Len(word) |-> toUpperCase(word[n])],
              LAMBDA c : c \in DOMAIN GLYPH_DB)

\* stats after the forEach over the glyphs
statsOf(word) ==
    [key \in StatKeys |->
        Cardinality({ n \in 1..Len(cleanWord(word)) : GLYPH_DB[cleanWord(word)[n]] = key })]

\* the profiles assigned by the five if statements, in statement order
ProfileNames ==
    <<"ARCHITECTURAL (Static)", "DYNAMIC (Engine)", "VESSEL (Holding)", "FLUID DYNAMIC",
      "TOOL / WEAPON">>

\* the condition of the n-th if statement
ProfileTest(n, stats) ==
    CASE n = 1 -> stats.stop > 0 /\ stats.stability > 0
      [] n = 2 -> stats.energy > 0 /\ stats.containment > 0
      [] n = 3 -> stats.containment > 0 /\ stats.stop = 0
      [] n = 4 -> stats.flow > 0 /\ stats.energy > 0
      [] n = 5 -> stats.stop > 0 /\ stats.energy > 0 /\ stats.alignment > 0

RECURSIVE ProfileAfter(_, _)
\* the profile variable after the first n if statements
ProfileAfter(stats, n) ==
    IF n = 0 THEN "AMORPHOUS"
    ELSE IF ProfileTest(n, stats) THEN ProfileNames[n]
    ELSE ProfileAfter(stats, n - 1)

\* variant of the cascade in which the first matching statement decides
profileOfFirst(stats) ==
    IF \E n \in 1..Len(ProfileNames) : ProfileTest(n, stats)
    THEN ProfileNames[CHOOSE n \in 1..Len(ProfileNames) :
                          /\ ProfileTest(n, stats)
                          /\ \A k \in 1..(n - 1) : ~ProfileTest(k, stats)]
    ELSE "AMORPHOUS"

\* the profile analyze returns for the counters stats
profileOf(stats) == ProfileAfter(stats, Len(ProfileNames))

\* WordMechanics.analyze(word) (glyph roles and load path left out)
analyze(word) ==
    [word |-> word, glyphs |-> cleanWord(word), stats |-> statsOf(word),
     profile |-> profileOf(statsOf(word))]

\* WordMechanics.analyze is called on a word one character longer than the
\* word of the call before
Analyze(c) ==
    /\ Len(mechanics.word) < MaxWordLen
    /\ mechanics' = analyze(Append(mechanics.word, c))
    /\ UNCHANGED <<op, ops, setLog, hits, getDeletes, pending, solver>>
    /\ UNCHANGED cacheVars
    /\ UNCHANGED callVars

NextMechanics == \E c \in WordCharacters : Analyze(c)

SpecMechanics == Init /\ [][NextMechanics]_vars

(***************************************************************************)
(* Concurrent callFreeAI calls on the shared queryCache: each call looks   *)
(* the key up when it starts and stores under it when a provider has       *)
(* answered; other calls may start and store in between.                   *)
(***************************************************************************)
ConcurrentMessages ==
    DirectMessages \cup { << [role |-> "user", content |-> <<"capital", "of", "france">>] >> }

\* the entries that n earlier calls of distinct messages left in the cache
Prefilled(n) ==
    [i \in 1..n |->
        [key |-> makeKey(<< [role |-> "user", content |-> [j \in 1..i |-> "earlier"]] >>),
         value |-> ProseText, timestamp |-> 0]]

\* number of entries in the shared cache when the calls start: none, one
\* below the capacity, the capacity
PrefillSizes == {0, CacheMaxSize - 1, CacheMaxSize}

InitConcurrent ==
    /\ cache \in { Prefilled(n) : n \in PrefillSizes }
    /\ maxSize = CacheMaxSize
    /\ ttlMs = CacheTtlMs
    /\ now = 0
    /\ ticks = 0
    /\ op = NoOp
    /\ ops = 0
    /\ setLog = <<>>
    /\ hits = 0
    /\ getDeletes = 0
    /\ mechanics = NoAnalysis
    /\ pending = {}
    /\ solver = NoSolver
    /\ CallIdle

\* callFreeAI(ms, true) up to its first await: queryCache.get(makeKey(ms));
\* on a miss the call goes on to the providers
ConcurrentLookup(ms) ==
    LET key == makeKey(ms)
    IN  /\ calls < MaxCalls
        /\ calls' = calls + 1
        /\ ops' = ops + 1
        /\ op' = [name |-> "get", key |-> key,
                  value |-> IF CacheHas(cache, key) THEN CacheEntry(cache, key).value ELSE Null,
                  result |-> QueryCacheGetResult(cache, key, now, ttlMs),
                  stored |-> CacheHas(cache, key),
                  age |-> IF CacheHas(cache, key) THEN now - CacheEntry(cache, key).timestamp
                          ELSE 0,
                  before |-> CacheKeySeq(cache)]
        /\ cache' = QueryCacheGetMap(cache, key, now, ttlMs)
        /\ pending' = IF QueryCacheGetResult(cache, key, now, ttlMs) = Null
                      THEN pending \cup { [id |-> calls + 1, messages |-> ms] }
                      ELSE pending
        /\ UNCHANGED <<maxSize, ttlMs, now, ticks, setLog, hits, getDeletes, mechanics,
                       solver>>
        /\ UNCHANGED <<pc, cur, messages, useCache, errors, delay, aborted, inflight,
                       abandoned, ret, puterAvailable, issued, failure, unreported>>
        /\ UNCHANGED callerVars

\* a provider answered the pending call c with text: queryCache.set, return
ConcurrentStore(c, text) ==
    /\ c \in pending
    /\ pending' = pending \ {c}
    /\ ops' = ops + 1
    /\ cache' = QueryCacheSet(cache, makeKey(c.messages), text, now, maxSize)
    /\ op' = [name |-> "set", key |-> makeKey(c.messages), value |-> text, result |-> Null,
              stored |-> CacheHas(cache, makeKey(c.messages)), age |-> 0,
              before |-> CacheKeySeq(cache)]
    /\ UNCHANGED <<maxSize, ttlMs, now, ticks, setLog, hits, getDeletes, mechanics,
                   solver>>
    /\ UNCHANGED callVars

\* every provider failed the pending call c: it throws and stores nothing
ConcurrentFail(c) ==
    /\ c \in pending
    /\ pending' = pending \ {c}
    /\ UNCHANGED <<op, ops, setLog, hits, getDeletes, mechanics, solver>>
    /\ UNCHANGED cacheVars
    /\ UNCHANGED callVars

NextConcurrent ==
    \/ \E ms \in ConcurrentMessages : ConcurrentLookup(ms)
    \/ \E c \in pending, text \in Texts : ConcurrentStore(c, text)
    \/ \E c \in pending : ConcurrentFail(c)
    \/ Tick(1)

SpecConcurrent == InitConcurrent /\ [][NextConcurrent]_vars


(***************************************************************************)
(* Properties of AdaEngine.process and KinematicEngine.process.            *)
(***************************************************************************)
\* C1: AdaEngine.process never lets an exception out: whatever callFreeAI
\* ended with, process returns a SearchResult (of tier 3); when callFreeAI
\* threw because every provider failed, the error field of the result holds
\* the message of that error, and it is empty when a provider answered.
C1_NeverThrows ==
    /\ result.kind # "exception"
    /\ (caller = "ada" /\ pc = "idle") =>
          /\ result.kind = "result"
          /\ result.tier = 3
          /\ ret.kind = "throw" => (result.error # NoError /\ result.error = ret.message)
          /\ ret.kind = "return" => result.error = NoError

\* C2: KinematicEngine.process returns the Tier-1 result when a Tier-1
\* pattern matches; otherwise the Tier-2 result when a cluster overlaps; the
\* call of Tier 3 is made only when both returned null, and while a query
\* resolved by Tier 1 or Tier 2 is the current one no provider call runs.
C2_TierOrder ==
    caller = "kinematic" =>
        LET tier1 == KinematicResolution[query].tier1
            tier2 == KinematicResolution[query].tier2
        IN  IF tier1 # NoResult
            THEN pc = "idle" /\ inflight = {} /\ result = tier1
            ELSE IF tier2 # NoResult
            THEN pc = "idle" /\ inflight = {} /\ result = tier2
            ELSE \/ pc # "idle" /\ result = NoResult
                 \/ pc = "idle" /\ result.tier = 3

C2_Witness ==
    /\ caller = "kinematic"
    /\ result.tier = 1
    /\ KinematicResolution[query].tier2 # NoResult
    /\ pc = "idle"
    /\ calls = 1

(***************************************************************************)
(* Properties of callFreeAI.                                               *)
(***************************************************************************)
RECURSIVE ModelsBefore(_)
\* number of (endpoint, model) pairs of the endpoints before e
ModelsBefore(e) ==
    IF e <= 1 THEN 0 ELSE ModelsBefore(e - 1) + Len(allEndpoints[e - 1].models)

\* position of the model, pair or fallback of attempt a in the priority
\* order: native models, then (endpoint, model) pairs, then GET fallbacks
UnitIndex(a) ==
    CASE a.tier = "native" -> a.i
      [] a.tier = "post"   -> Len(PuterModels) + ModelsBefore(a.i) + a.j
      [] a.tier = "get"    -> Len(PuterModels) + ModelsBefore(Len(allEndpoints) + 1) + a.i
      [] OTHER             -> 0

\* b is the attempt that follows a for the same model, pair or fallback
SameUnitNext(a, b) ==
    /\ a.tier = b.tier
    /\ a.i = b.i
    /\ IF a.tier = "post"
       THEN b.j = a.j /\ b.n = a.n + 1
       ELSE \/ b.n = a.n /\ b.j = a.j + 1
            \/ b.n = a.n + 1 /\ b.j = 1

\* b is the first attempt of the model, pair or fallback right after that of a
NextUnitFirst(a, b) ==
    /\ UnitIndex(b) = UnitIndex(a) + 1
    /\ b.n = 1
    /\ b.tier = "get" => b.j = 1

\* the step issues a request
StartsAttempt ==
    /\ issued' # NoAttempt
    /\ issued' # issued \/ (pc = "idle" /\ pc' = "request")

C4_CacheHit ==
    [][ ( /\ pc = "idle"
          /\ calls' = calls + 1
          /\ useCache'
          /\ CacheHas(cache, makeKey(messages'))
          /\ now - CacheEntry(cache, makeKey(messages')).timestamp <= ttlMs )
        => ( /\ pc' = "done"
             /\ ret' = Returned(CacheEntry(cache, makeKey(messages')).value, "cache")
             /\ issued' = NoAttempt
             /\ inflight' = {}
             /\ cache' = cache )
      ]_vars

C4_Witness ==
    /\ pc = "done"
    /\ ret.kind = "return"
    /\ ret.from = "cache"
    /\ useCache
    /\ calls = 2
    /\ issued = NoAttempt
    /\ inflight = {}

\* C5: a POST pair gets at most maxRetries + 1 attempts, and the sleep before
\* attempt number k (k >= 2, the retry number k - 1) lasts exactly
\* baseDelayMs * 2^(k - 2), whatever was slept before.
C5_Backoff ==
    /\ issued.tier = "post" => issued.n \in 1..(MaxRetries + 1)
    /\ (pc = "sleep" /\ cur.tier = "post") =>
          /\ cur.n \in 2..(MaxRetries + 1)
          /\ issued = Post(cur.i, cur.j, cur.n - 1)
          /\ delay = BaseDelayMs * 2^(cur.n - 2)

C5_Witness ==
    /\ pc = "sleep"
    /\ cur = Post(2, 1, MaxRetries + 1)
    /\ delay = 2 * BaseDelayMs

\* C6: a POST attempt that failed with status 429, a status of 500 or more,
\* or an abort is followed by a sleep and a further attempt of the same pair
\* while retries are left, and by the next pair or the GET fallbacks once
\* they are used up; one that failed with another 4xx status is followed at
\* once by the next pair or the GET fallbacks; the call never ends there.
C6_RetryPolicy ==
    LET a == failure.attempt
    IN  (a.tier = "post" /\ failure.outcome # "none") =>
            /\ pc \in {"sleep", "request"}
            /\ (failure.status = 429 \/ failure.status >= 500 \/ failure.outcome = "abort") =>
                  IF a.n <= MaxRetries
                  THEN pc = "sleep" /\ cur = Post(a.i, a.j, a.n + 1)
                  ELSE pc = "request" /\ NextUnitFirst(a, cur)
            /\ (failure.status >= 400 /\ failure.status < 500 /\ failure.status # 429) =>
                  pc = "request" /\ NextUnitFirst(a, cur)

C6_Witness ==
    /\ failure.attempt = Post(1, 1, 1)
    /\ failure.status = 404
    /\ pc = "request"
    /\ cur = Post(1, 2, 1)

\* C7 as stated: an attempt that failed on an empty or malformed answer is
\* never followed by a retry of the same model.
C7_EmptyIsPermanent ==
    failure.outcome \in {"blank", "malformed"} => pc # "sleep"

\* C7, amended: a native model whose answer holds no text is left at once
\* for the next model or the POST pairs; a POST attempt with a blank body is
\* retried like a transient failure, with the backoff, up to maxRetries; a
\* GET fallback with a blank body is retried once after baseDelayMs; an HTTP
\* body that holds JSON without a text field is no failure at all.
C7_EmptyResponse ==
    LET a == failure.attempt
    IN  /\ failure.outcome = "malformed" => a.tier = "native"
        /\ (failure.outcome \in {"blank", "malformed"} /\ a.tier = "native") =>
              pc = "request" /\ NextUnitFirst(a, cur)
        /\ (failure.outcome = "blank" /\ a.tier = "post") =>
              IF a.n <= MaxRetries
              THEN pc = "sleep" /\ cur = Post(a.i, a.j, a.n + 1)
                   /\ delay = BaseDelayMs * 2^(a.n - 1)
              ELSE pc = "request" /\ NextUnitFirst(a, cur)
        /\ (failure.outcome = "blank" /\ a.tier = "get") =>
              IF a.j < getFallbacks[a.i].urls
              THEN pc = "request" /\ cur = Get(a.i, a.j + 1, a.n)
              ELSE IF a.n < GetAttempts
              THEN pc = "sleep" /\ cur = Get(a.i, 1, a.n + 1) /\ delay = BaseDelayMs
              ELSE IF a.i < Len(getFallbacks)
              THEN pc = "request" /\ NextUnitFirst(a, cur)
              ELSE pc \in {"done", "idle"} /\ ret.kind = "throw"

C7_Witness ==
    /\ failure.outcome = "blank"
    /\ failure.attempt = Post(1, 1, 2)
    /\ pc = "sleep"
    /\ cur = Post(1, 1, 3)

\* the failed attempts whose reason is pushed nowhere: the native models
\* (when the SDK is there) and every URL but the last of a GET fallback
SilentAttempts ==
    (IF puterAvailable THEN { Native(i) : i \in 1..Len(PuterModels) } ELSE {})
    \cup UNION { { Get(g, u, n) : u \in 1..(getFallbacks[g].urls - 1), n \in 1..GetAttempts } :
                 g \in 1..Len(getFallbacks) }

\* the last attempt of the last GET fallback
LastAttempt == Get(Len(getFallbacks), getFallbacks[Len(getFallbacks)].urls, GetAttempts)

C11_StoresOnSuccess ==
    (pc = "done" /\ ret.kind = "return" /\ ret.from # "cache" /\ useCache) =>
        /\ CacheHas(cache, makeKey(messages))
        /\ CacheEntry(cache, makeKey(messages)).value = ret.text
        /\ CacheEntry(cache, makeKey(messages)).timestamp = now
        /\ QueryCacheGetResult(cache, makeKey(messages), now, ttlMs) = ret.text

\* C11 witness: the text came from the last tier, a GET fallback, after the
\* native models and every POST pair had failed, and it is in the cache
C11_Witness ==
    /\ pc = "done"
    /\ useCache
    /\ ret.kind = "return"
    /\ ret.from = "get"
    /\ puterAvailable
    /\ CacheHas(cache, makeKey(messages))
    /\ CacheEntry(cache, makeKey(messages)).value = ret.text

(***************************************************************************)
(* Properties of the governance calculus (checked under SpecGovernance).   *)
(***************************************************************************)
\* a result AdaEngine.process returned
AdaReturned == caller = "ada" /\ result.kind = "result"

\* C12: in every result of AdaEngine, k = max(c, m) and f = 1 - k, and the
\* state is MISCONCEPTION exactly when m > c and m > 0.4; failing that, FOG
\* exactly when f > 0.5; failing both, CORRECT exactly when c > 0.7; and
\* PARTIAL exactly when none of the three conditions is met in its turn.
C12_StateCascade ==
    AdaReturned =>
        LET c == result.csv.c
            m == result.csv.m
            f == result.csv.f
            misconception == m > c /\ m > MisconceptionHigh
            fog == ~misconception /\ f > FogHigh
            correct == ~misconception /\ ~fog /\ c > CorrectHigh
        IN  /\ result.csv.k = Max(c, m)
            /\ f = 100 - result.csv.k
            /\ (result.csv.state = "MISCONCEPTION") <=> misconception
            /\ (result.csv.state = "FOG") <=> fog
            /\ (result.csv.state = "CORRECT") <=> correct
            /\ (result.csv.state = "PARTIAL") <=> (~misconception /\ ~fog /\ ~correct)

\* C12 witness: a pair (c, m) that meets the misconception condition and the
\* fog condition at once was resolved to MISCONCEPTION, the earlier one
C12_Witness ==
    /\ AdaReturned
    /\ result.csv.m > result.csv.c
    /\ result.csv.m > MisconceptionHigh
    /\ result.csv.f > FogHigh
    /\ result.csv.state = "MISCONCEPTION"

C14_ProofLabel ==
    AdaReturned =>
        LET verified == /\ result.csv.c >= CorrectHigh
                        /\ result.constraint.status = "GREEN"
                        /\ result.error = NoError
            needsData == /\ ~verified
                         /\ \/ result.csv.f > FogHigh
                            \/ result.csv.state = "FOG"
                            \/ result.action = "CLARIFY"
        IN  /\ (result.proofLabel = "VERIFIED") <=> verified
            /\ (result.proofLabel = "NEEDS_DATA") <=> needsData
            /\ (result.proofLabel = "LIKELY") <=> (~verified /\ ~needsData)
            /\ result.error # NoError => result.proofLabel # "VERIFIED"

\* C14 witness: a VERIFIED result
C14_Witness ==
    /\ AdaReturned
    /\ result.proofLabel = "VERIFIED"
    /\ result.csv.c >= CorrectHigh
    /\ result.constraint.status = "GREEN"
    /\ result.error = NoError

C16_Tier1Result ==
    (caller = "kinematic" /\ KinematicResolution[query].patterns # {}) =>
        /\ result.kind = "result"
        /\ result.tier = 1
        /\ result.confidence = 100
        /\ result.csv.state = "CORRECT"
        /\ result.constraint.status = "GREEN"
        /\ result.trajectoryPoints = << <<0, 0>>, <<100, 100>> >>
        /\ result.isClosed

\* C16 witness: a query that a pattern matches was resolved after a provider
\* call had been made for another query
C16_Witness ==
    /\ caller = "kinematic"
    /\ KinematicResolution[query].patterns # {}
    /\ calls >= 1
    /\ result.tier = 1
    /\ result.isClosed

\* C17: the Tier-1 result has the shape of the pattern that comes first in
\* the list among those that match the query, also when patterns later in
\* the list match, and its entity is the group that pattern captured with
\* the question marks at its end removed; the result for "history of
\* population of Texas?" is POPULATION_OF with entity "Texas".
C17_FirstPatternWins ==
    (caller = "kinematic" /\ KinematicResolution[query].patterns # {}) =>
        LET matching == KinematicResolution[query].patterns
            first == CHOOSE n \in matching : \A k \in matching : n <= k
        IN  /\ result.shape = Tier1Patterns[first].shape
            /\ result.entity = stripEntity(KinematicResolution[query].captures[first])
            /\ query = <<"history", "of", "population", "of", "Texas?">> =>
                   (result.shape = "population(X) = ?" /\ result.entity = <<"Texas">>)

\* C17 witness: two patterns match, the one that matches further left in the
\* text comes later in the list, and the captured group ended with "?"
C17_Witness ==
    /\ caller = "kinematic"
    /\ Cardinality(KinematicResolution[query].patterns) >= 2
    /\ result.tier = 1
    /\ result.shape = "population(X) = ?"
    /\ result.entity = <<"Texas">>
    /\ \E n \in KinematicResolution[query].patterns :
           KinematicResolution[query].captures[n] # result.entity

\* the checkCluster call whose shape a Tier-2 result carries
WinningCluster(r) == CHOOSE n \in 1..Len(ClusterChecks) : ClusterChecks[n].shape = r.shape

\* C18: a Tier-2 result is returned only for a query of which some cluster
\* holds at least one word; the cluster of the result has an overlap count
\* of at least 1 that no cluster exceeds and that no cluster checked before
\* it equals.  When no pattern matches, a query with an overlap gets a
\* Tier-2 result and a query without one gets none.
C18_BestCluster ==
    caller = "kinematic" =>
        LET overlaps == KinematicResolution[query].overlaps
            some == \E n \in DOMAIN overlaps : overlaps[n] >= 1
        IN  /\ result.tier = 2 =>
                  LET w == WinningCluster(result)
                  IN  /\ overlaps[w] >= 1
                      /\ \A n \in DOMAIN overlaps : overlaps[n] <= overlaps[w]
                      /\ \A n \in 1..(w - 1) : overlaps[n] < overlaps[w]
            /\ (KinematicResolution[query].patterns = {} /\ some) => result.tier = 2
            /\ ~some => result.tier # 2

\* C18 witness: two clusters share the highest overlap count and the result
\* carries the one checked first
C18_Witness ==
    /\ caller = "kinematic"
    /\ result.tier = 2
    /\ \E n \in DOMAIN KinematicResolution[query].overlaps :
          /\ n > WinningCluster(result)
          /\ KinematicResolution[query].overlaps[n] =
                 KinematicResolution[query].overlaps[WinningCluster(result)]

\* C19: the entity of a Tier-2 result is made of the tokens of the query, in
\* their order and as they were written, whose lower-case alphanumeric form
\* is not empty, is no word of the winning cluster and is no noise word; it
\* is "Unknown" when no token is left.  "who is the King of Spain" gives
\* "Spain".
C19_Tier2Entity ==
    (caller = "kinematic" /\ result.tier = 2) =>
        LET cluster == SEMANTIC_CLUSTERS[ClusterChecks[WinningCluster(result)].clusterName]
            kept == { i \in 1..Len(query) :
                        /\ normalized(query[i]) # ""
                        /\ normalized(query[i]) \notin cluster
                        /\ normalized(query[i]) \notin NoiseWords }
        IN  /\ IF kept = {} THEN result.entity = <<"Unknown">>
               ELSE /\ Len(result.entity) = Cardinality(kept)
                    /\ \A i \in kept :
                          result.entity[Cardinality({ j \in kept : j <= i })] = query[i]
            /\ query = <<"who", "is", "the", "King", "of", "Spain">> =>
                   result.entity = <<"Spain">>

\* C19 witness: a token written with a capital was kept as written, while a
\* capitalised word of the cluster and the noise words were left out
C19_Witness ==
    /\ caller = "kinematic"
    /\ result.tier = 2
    /\ result.entity = <<"Spain">>
    /\ \E i \in 1..Len(query) : query[i] = "King"

C21_FallbackGovernance ==
    /\ \A n \in 1..Len(MISCONCEPTION_PATTERNS) :
          LET p == MISCONCEPTION_PATTERNS[n].prob
          IN  p < FallbackCorrectness /\ 100 - FallbackCorrectness <= FogHigh
              /\ FallbackCorrectness <= CorrectHigh /\ 100 - p > GroundFloor
    /\ (AdaReturned /\ ret.kind = "throw") =>
          LET m == estimateFallbackMisconception(query)
          IN  /\ result.error # NoError
              /\ result.error = ret.message
              /\ result.confidence = FallbackCorrectness
              /\ result.csv.c = FallbackCorrectness
              /\ result.csv.m = m
              /\ result.csv.state = "PARTIAL"
              /\ result.action = "RESPOND"
              /\ result.proofLabel = "LIKELY"
              /\ result.constraint.status =
                    IF FallbackCorrectness * 100 > RatioRedMin * (100 - m) THEN "RED"
                    ELSE IF FallbackCorrectness * 100 >= RatioYellowMin * (100 - m) THEN "YELLOW"
                    ELSE "GREEN"

\* C21 as stated: the result built from the aggregated error carries error
\* populated, cognitive state FOG, constraint status RED and action ABSTAIN
C21_WorstCaseDefaults ==
    (AdaReturned /\ ret.kind = "throw") =>
        /\ result.error # NoError
        /\ result.csv.state = "FOG"
        /\ result.constraint.status = "RED"
        /\ result.action = "ABSTAIN"

C21_Witness ==
    /\ AdaReturned
    /\ ret.kind = "throw"
    /\ query = <<"capital", "of", "france">>
    /\ result.error # NoError
    /\ result.csv.state = "PARTIAL"
    /\ result.constraint.status = "YELLOW"
    /\ result.action = "RESPOND"

\* C22: estimateFallbackMisconception returns the greatest probability among
\* the patterns that match the query (not their sum, not that of the first
\* one), and the floor 0.15 when none matches; it is never below 0.15 and
\* never above the largest probability of the table.  Read on the results of
\* the catch block of process, whose misconception is the estimate.
C22_MaxOfMatching ==
    (AdaReturned /\ result.error # NoError) =>
        LET est == result.csv.m
            matching == { n \in 1..Len(MISCONCEPTION_PATTERNS) :
                            MisconceptionPatternTest(MISCONCEPTION_PATTERNS[n], query) }
        IN  /\ matching = {} => est = FallbackMisconceptionLow
            /\ matching # {} =>
                  /\ \E n \in matching : est = MISCONCEPTION_PATTERNS[n].prob
                  /\ \A n \in matching : est >= MISCONCEPTION_PATTERNS[n].prob
            /\ est >= FallbackMisconceptionLow
            /\ \E n \in 1..Len(MISCONCEPTION_PATTERNS) :
                  /\ est <= MISCONCEPTION_PATTERNS[n].prob
                  /\ \A k \in 1..Len(MISCONCEPTION_PATTERNS) :
                        MISCONCEPTION_PATTERNS[k].prob <= MISCONCEPTION_PATTERNS[n].prob

\* two patterns match, the first with the smaller probability, and the
\* estimate is the greater one
C22_Witness ==
    LET matching == { n \in 1..Len(MISCONCEPTION_PATTERNS) :
                        MisconceptionPatternTest(MISCONCEPTION_PATTERNS[n], query) }
    IN  /\ AdaReturned
        /\ result.error # NoError
        /\ Cardinality(matching) = 2
        /\ MISCONCEPTION_PATTERNS[SetMin(matching)].prob
              < MISCONCEPTION_PATTERNS[SetMax(matching)].prob
        /\ result.csv.m = MISCONCEPTION_PATTERNS[SetMax(matching)].prob

(***************************************************************************)
(* Properties of the parsers and of normalizeEvaluation (checked under     *)
(* SpecEvaluation).                                                        *)
(***************************************************************************)
\* C23: normalizeEvaluation returns, for every partial input (the empty
\* object and fields of unexpected types included), a record in which no
\* field is undefined or null: an absent field has its default (correctness
\* 0.65, misconception 0.2, action RESPOND, no synonyms, no antonyms), and
\* correctness and misconception lie in [0, 1].
C23_Normalized ==
    caller = "ada" =>
        /\ evalData.correctness \in 0..100
        /\ evalData.misconception \in 0..100
        /\ Nullish(parsed.correctness) => evalData.correctness = 65
        /\ Nullish(parsed.misconception) => evalData.misconception = 20
        /\ Nullish(parsed.action) => evalData.action = <<"RESPOND">>
        /\ Nullish(parsed.entity) =>
              evalData.entity = (IF query = <<>> THEN <<"Signal">> ELSE query)
        /\ parsed.synonyms.type # "array" => evalData.synonyms = <<>>
        /\ parsed.antonyms.type # "array" => evalData.antonyms = <<>>
        /\ Len(evalData.synonyms) <= 8 /\ Len(evalData.antonyms) <= 8
        /\ \A field \in {"entity", "equation", "response", "action"} :
              evalData[field] \in Seq(STRING)

\* C24: for any text a provider returns, the parsing of process does not
\* raise and yields a fully populated evaluation, built from the first of
\* these that succeeds: JSON.parse of the text without its fences, JSON.parse
\* of the span from the first { to the last }, the keys found one by one,
\* the text taken as the response (the defaults alone for an empty text).
C24_ParseRepair ==
    (caller = "ada" /\ ret.kind = "return") =>
        LET cleaned == stripCodeFences(Lexemes(ret.text))
            strict == JSONparse(cleaned)
            braces == { i \in 1..Len(cleaned) : cleaned[i] = "{" }
            closing == { j \in 1..Len(cleaned) : cleaned[j] = "}" }
            span == IF braces = {} \/ closing = {} \/ SetMax(closing) < SetMin(braces)
                    THEN SyntaxError
                    ELSE JSONparse(SubSeq(cleaned, SetMin(braces), SetMax(closing)))
            succeeded(p) == p.kind # "error" /\ p # ParsedNull
            keyed == \E i \in 1..Len(cleaned) :
                        /\ IsKey(cleaned[i])
                        /\ KeyOf(cleaned[i]) \in {"correctness", "misconception",
                                                  "response", "entity"}
            built == IF succeeded(strict) THEN strict.object
                     ELSE IF succeeded(span) THEN span.object
                     ELSE IF keyed THEN parseLooselyStructuredResponse(Lexemes(ret.text)).object
                     ELSE IF cleaned # <<>> THEN [EmptyEvaluation EXCEPT !.response = Str(cleaned)]
                     ELSE EmptyEvaluation
        IN  /\ parsed = built
            /\ evalData = normalizeEvaluation(built, query)
            /\ \A field \in {"entity", "equation", "response", "action"} :
                  evalData[field] \in Seq(STRING)



TrajectoriesClosed ==
    \A m \in 0..100 :
        /\ Len(AdaTrajectory[m]) = TrajectorySamples + 1
        /\ AdaTrajectory[m][1] = <<0, 0>>
        /\ AdaTrajectory[m][TrajectorySamples + 1] = <<100, 100>>
        /\ checkClosure(m)

\* C26: for every misconception m of [0, 1] (every hundredth), the
\* trajectory AdaEngine builds has trajectorySamples + 1 points, of which the
\* first is P0 = [0, 0] and the last is P3 = [1, 1], and checkClosure is
\* true; every result process returns carries that trajectory for its
\* misconception, with isClosed true.
C26_Trajectory ==
    /\ TrajectoriesClosed
    /\ (caller = "ada" /\ result.kind = "result") =>
          /\ result.csv.m \in 0..100
          /\ result.trajectoryPoints = AdaTrajectory[result.csv.m]
          /\ Len(result.trajectoryPoints) = TrajectorySamples + 1
          /\ result.trajectoryPoints[1] = <<0, 0>>
          /\ result.trajectoryPoints[Len(result.trajectoryPoints)] = <<100, 100>>
          /\ result.isClosed

\* C26 witness: a result of the largest misconception, whose trajectory
\* takes a detour from that of misconception 0 and is closed
C26_Witness ==
    /\ caller = "ada"
    /\ result.kind = "result"
    /\ result.csv.m = 100
    /\ Len(result.trajectoryPoints) = 21
    /\ result.trajectoryPoints[11] # AdaTrajectory[0][11]
    /\ result.trajectoryPoints[21] = <<100, 100>>
    /\ result.isClosed


(***************************************************************************)
(* Properties of the SearchResult of both engines.                         *)
(***************************************************************************)
\* C27: every SearchResult returned by KinematicEngine.process (by each of
\* its three tiers, after a provider answer and after a failure) and by
\* AdaEngine.process is structurally complete: it has a proof label, one of
\* VERIFIED, LIKELY and NEEDS_DATA, and a ledger, besides its tier, shape,
\* entity, confidence, csv, constraint, action, trajectory points and
\* isClosed.
C27_Complete ==
    (caller \in {"ada", "kinematic"} /\ result.kind = "result") =>
        /\ result.proofLabel \in {"VERIFIED", "LIKELY", "NEEDS_DATA"}
        /\ result.ledger # <<>>
        /\ result.tier \in 1..3
        /\ result.shape # ""
        /\ result.confidence \in 0..100
        /\ result.csv.state \in {"CORRECT", "PARTIAL", "MISCONCEPTION", "FOG"}
        /\ result.constraint.status \in {"GREEN", "YELLOW", "RED", "FINFR"}
        /\ result.action # ""
        /\ result.trajectoryPoints # <<>>
        /\ result.isClosed \in BOOLEAN

\* C27: a Tier-1 result of KinematicEngine.process, which has every field
\* of the object literal of matchTier1 and neither proof label nor ledger
C27_Witness ==
    /\ caller = "kinematic"
    /\ result.kind = "result"
    /\ result.tier = 1
    /\ result.shape # ""
    /\ result.action = "RESPOND"
    /\ result.isClosed
    /\ result.proofLabel = ""
    /\ result.ledger = <<>>


\* C28: whatever the provider answered, the action of the result of
\* AdaEngine.process is one of RESPOND, ABSTAIN, CLARIFY, DEFER and ESCALATE.
C28_ActionClosed ==
    (caller = "ada" /\ result.kind = "result") =>
        result.action \in {"RESPOND", "ABSTAIN", "CLARIFY", "DEFER", "ESCALATE"}

\* C28: the provider answered with an action outside the set, and the result
\* carries it
C28_Witness ==
    /\ caller = "ada"
    /\ result.kind = "result"
    /\ ret.kind = "return"
    /\ result.error = NoError
    /\ parsed.action = Str(<<"MAYBE">>)
    /\ result.action = "MAYBE"

\* C29: for every query and every provider answer, the entity of the result
\* of AdaEngine.process is a non-empty string.
C29_EntityNonEmpty ==
    (caller = "ada" /\ result.kind = "result") => result.entity # <<>>

\* C29: the provider answered with the empty string for the entity of a
\* non-empty query, and the result carries it
C29_Witness ==
    /\ caller = "ada"
    /\ result.kind = "result"
    /\ ret.kind = "return"
    /\ result.error = NoError
    /\ query # <<>>
    /\ parsed.entity = Str(<<>>)
    /\ result.entity = <<>>


(***************************************************************************)
(* Properties of WordMechanics.analyze (checked under SpecMechanics).      *)
(***************************************************************************)
\* the profile of the last rule that matches the counters stats, read from
\* the last rule to the first
LastMatching(stats) ==
    IF stats.stop > 0 /\ stats.energy > 0 /\ stats.alignment > 0 THEN "TOOL / WEAPON"
    ELSE IF stats.flow > 0 /\ stats.energy > 0 THEN "FLUID DYNAMIC"
    ELSE IF stats.containment > 0 /\ stats.stop = 0 THEN "VESSEL (Holding)"
    ELSE IF stats.energy > 0 /\ stats.containment > 0 THEN "DYNAMIC (Engine)"
    ELSE IF stats.stop > 0 /\ stats.stability > 0 THEN "ARCHITECTURAL (Static)"
    ELSE "AMORPHOUS"

\* the cascade gives the profile of the last matching rule for every
\* combination of the six counters, each absent, single or repeated
CascadeLastWins ==
    \A stats \in [StatKeys -> 0..2] : profileOf(stats) = LastMatching(stats)

\* C30: WordMechanics.analyze classifies the profile by a fixed cascade in
\* which a later matching rule overwrites an earlier one: AMORPHOUS, then
\* ARCHITECTURAL (stop > 0 and stability > 0), DYNAMIC (energy > 0 and
\* containment > 0), VESSEL (containment > 0 and stop = 0), FLUID DYNAMIC
\* (flow > 0 and energy > 0), TOOL / WEAPON (stop > 0, energy > 0 and
\* alignment > 0); the last matching rule wins for every combination of the
\* six counters, and the counters are those of the letters of the word.
C30_ProfileCascade ==
    /\ CascadeLastWins
    /\ mechanics # NoAnalysis =>
          /\ mechanics.profile = LastMatching(mechanics.stats)
          /\ \A key \in StatKeys :
                mechanics.stats[key] =
                    Cardinality({ n \in 1..Len(mechanics.glyphs) :
                                      GLYPH_DB[mechanics.glyphs[n]] = key })

\* C30 witness: a word whose counters match the first, the second and the
\* last rule, and whose profile is that of the last
C30_Witness ==
    /\ mechanics # NoAnalysis
    /\ mechanics.stats.stop > 0
    /\ mechanics.stats.stability > 0
    /\ mechanics.stats.energy > 0
    /\ mechanics.stats.alignment > 0
    /\ mechanics.profile = "TOOL / WEAPON"


(***************************************************************************)
(* Properties of callFreeAI: cancellation, the shared cache, termination.  *)
(***************************************************************************)
\* C31: there is no cross-attempt cancellation in callFreeAI: every HTTP
\* request has an abort signal of its own, so that no request of the
\* fallback chain, the second URL of the legacy GET fallback included, is
\* issued on a signal that the timeout of an earlier request has aborted.
C31_NoCrossCancellation ==
    (pc = "request" /\ cur.tier \in {"post", "get"}) => ~aborted

\* C31: the first URL of the legacy GET fallback ran into the timeout, and
\* the request of the second URL is in flight on the aborted signal
C31_Witness ==
    /\ pc = "request"
    /\ cur.tier = "get"
    /\ cur.i = 2
    /\ cur.j = 2
    /\ aborted
    /\ failure.attempt = Get(2, 1, cur.n)
    /\ failure.outcome = "abort"


\* C32: concurrent callFreeAI calls cannot corrupt the shared cache: when
\* two calls of the same messages both missed and the second of them stores
\* after the first, the cache has a single entry for the key, holding the
\* value written last, and that write neither removes nor alters the entry
\* of any other key.
C32_BenignRace ==
    [][ (ops' = ops + 1 /\ op'.name = "set" /\ op'.stored) =>
            /\ Cardinality({ i \in 1..Len(cache') : cache'[i].key = op'.key }) = 1
            /\ CacheEntry(cache', op'.key).value = op'.value
            /\ \A i \in 1..Len(cache) :
                  cache[i].key # op'.key =>
                      /\ CacheHas(cache', cache[i].key)
                      /\ CacheEntry(cache', cache[i].key) = cache[i] ]_vars

\* C32: the second of two concurrent writes of a key found the cache at its
\* capacity and removed the entry of another key
C32_Witness ==
    /\ op.name = "set"
    /\ op.stored
    /\ pending = {}
    /\ solver = NoSolver
    /\ calls = 2
    /\ Len(op.before) = maxSize
    /\ CacheHas(cache, op.key)
    /\ CacheEntry(cache, op.key).value = op.value
    /\ \E i \in 1..Len(op.before) : op.before[i] # op.key /\ ~CacheHas(cache, op.before[i])


\* place of attempt a in the order of the call: its model, pair or fallback,
\* then its attempt number, then its URL
AttemptRank(a) ==
    UnitIndex(a) * 100 + a.n * 10 + (IF a.tier = "get" THEN a.j ELSE 0)

\* C33: every callFreeAI call terminates, returning a text or throwing the
\* aggregated error, after a bounded number of provider attempts, at most
\* one per native model, maxRetries + 1 per (endpoint, model) pair and two
\* per GET fallback, provided that each attempt settles: no attempt has a
\* number above its bound, no attempt is made twice within a call, and a
\* call that awaits an attempt or sleeps comes to its end.
C33_Terminates ==
    /\ [](/\ issued.tier = "native" => (issued.n = 1 /\ issued.i \in 1..Len(PuterModels))
          /\ issued.tier = "post" => issued.n \in 1..(MaxRetries + 1)
          /\ issued.tier = "get" =>
                (issued.n \in 1..2 /\ issued.j \in 1..getFallbacks[issued.i].urls))
    /\ [][ (issued' # issued /\ issued # NoAttempt /\ calls' = calls) =>
               AttemptRank(issued') > AttemptRank(issued) ]_vars
    /\ (pc \in {"request", "sleep"}) ~> (pc = "done" /\ ret.kind \in {"return", "throw"})

\* C33 witness: the call made every attempt of every tier, up to the second
\* attempt of the last GET fallback, and ended with the aggregated error
C33_Witness ==
    /\ pc = "done"
    /\ ret.kind = "throw"
    /\ puterAvailable
    /\ issued = LastAttempt
    /\ issued.n = 2
    /\ inflight = {}


(***************************************************************************)
(* Properties of the lexical coverage merge.                               *)
(***************************************************************************)

\* process has returned a governed result for the query
LexicalMerged == caller = "ada" /\ result.kind = "result" /\ result.tier = 3

\* the generic synonyms were injected: the result lists one the reasoner
\* did not report
SynonymsInjected ==
    /\ LexicalMerged
    /\ \E n \in 1..Len(result.lexical.synonyms) :
          /\ result.lexical.synonyms[n] = PlaceholderSynonyms[1]
          /\ \A k \in 1..Len(evalData.synonyms) :
                trim(evalData.synonyms[k]) # PlaceholderSynonyms[1]

AntonymsInjected ==
    /\ LexicalMerged
    /\ \E n \in 1..Len(result.lexical.antonyms) :
          /\ result.lexical.antonyms[n] = PlaceholderAntonyms[1]
          /\ \A k \in 1..Len(evalData.antonyms) :
                trim(evalData.antonyms[k]) # PlaceholderAntonyms[1]

\* C34: the generic placeholder synonyms (antonyms) are injected only when
\* the query asks for them and none were found from any source: none
\* reported by the reasoner, none matched by the local fallback table
C34_PlaceholdersLastResort ==
    LET keywords == extractLexicalKeywords(query)
    IN  /\ SynonymsInjected =>
              /\ PatternTest(SynonymWords, query)
              /\ evalData.synonyms = <<>>
              /\ FallbackList(keywords, "synonyms", Len(keywords)) = <<>>
        /\ AntonymsInjected =>
              /\ PatternTest(AntonymWords, query)
              /\ evalData.antonyms = <<>>
              /\ FallbackList(keywords, "antonyms", Len(keywords)) = <<>>

\* the placeholders were injected for a query that asks for synonyms, for
\* which the reasoner had reported some
C34_Witness ==
    /\ SynonymsInjected
    /\ PatternTest(SynonymWords, query)
    /\ evalData.synonyms # <<>>


(***************************************************************************)
(* AdaEngine.process called again with the arguments of the call before.   *)
(***************************************************************************)
\* the resolution of toLocaleString (ms): the prompt changes once a second
OneSecond == 1000

\* the query that is put twice
RepeatQuery == <<"capital", "of", "france">>

\* AdaEngine.process(query, h, complexity) once more, after the call before
\* it returned a result without error
AdaRepeat(h) ==
    /\ caller = "ada"
    /\ result.kind = "result"
    /\ result.error = NoError
    /\ calls < MaxAdaCalls + 1
    /\ CallStart(AdaMessages(query, h, complexity, now), TRUE)
    /\ repeated' = TRUE
    /\ result' = NoResult
    /\ parsed' = EmptyEvaluation
    /\ evalData' = normalizeEvaluation(EmptyEvaluation, query)
    /\ UNCHANGED <<caller, query, complexity, maxSize, ttlMs, now, ticks, puterAvailable>>
    /\ UNCHANGED obsVars

NextRepeat ==
    \/ \E h \in Histories : AdaProcess(RepeatQuery, h, "STANDARD")
    \/ \E h \in Histories : AdaRepeat(h)
    \/ AdaReturn
    \/ ChainStep
    \/ Tick(1)
    \/ Tick(OneSecond)

SpecRepeat == Init /\ [][NextRepeat]_vars


(***************************************************************************)
(* Properties of the query cache.                                          *)
(***************************************************************************)

\* the entry stored by the call before is still within the TTL
PreviousEntryFresh ==
    /\ CacheHas(cache, makeKey(messages))
    /\ now - CacheEntry(cache, makeKey(messages)).timestamp <= ttlMs

\* C35: when process is called a second time with the same query, history
\* and complexity, after the first call succeeded and within the cache TTL,
\* the second call is answered from the cache with no provider attempt
C35_RepeatServedFromCache ==
    [][ (calls' = calls + 1 /\ repeated' /\ PreviousEntryFresh)
        => (pc' = "done" /\ ret'.kind = "return" /\ ret'.from = "cache"
            /\ inflight' = {}) ]_vars

\* the repeated call, made a second later, has a provider request in flight
\* while the cache holds the fresh entry of the first call
C35_Witness ==
    /\ repeated
    /\ caller = "ada"
    /\ pc = "request"
    /\ inflight # {}
    /\ \E n \in 1..Len(cache) :
          /\ now - cache[n].timestamp <= ttlMs
          /\ now - cache[n].timestamp >= OneSecond


\* C36: a callFreeAI call made with useCache = false never reads or writes
\* the shared cache: no step of the call, from its start to its return or
\* throw, changes the cache, and its result never comes from the cache
C36_UncachedCallFrame ==
    [][ ((calls' = calls + 1 /\ ~useCache') \/ (pc # "idle" /\ ~useCache))
        => (cache' = cache /\ ret'.from # "cache") ]_vars

\* a call made with useCache = false returned a provider's text although the
\* cache holds a fresh entry under the key of its messages
C36_Witness ==
    /\ pc = "done"
    /\ ~useCache
    /\ ret.kind = "return"
    /\ ret.from # "cache"
    /\ CacheHas(cache, makeKey(messages))
    /\ now - CacheEntry(cache, makeKey(messages)).timestamp <= ttlMs


\* C37: after any sequence of set and get operations on a QueryCache with
\* maxSize >= 1 the number of stored entries never exceeds maxSize, and a
\* get(key) that follows set(key, value) immediately returns that value
C37_BoundedAndReadable ==
    /\ [](maxSize >= 1 => Len(cache) <= maxSize)
    /\ [][ (op.name = "set" /\ ops' = ops + 1 /\ op'.name = "get" /\ op'.key = op.key
            /\ now' = now /\ op'.age = 0)
           => op'.result = op.value ]_vars

\* a set into a full cache evicted an entry, and the get of the same key that
\* followed it at once returned the value just stored
C37_Witness ==
    /\ op.name = "get"
    /\ op.age = 0
    /\ op.result # Null
    /\ Len(cache) = maxSize
    /\ Len(setLog) > maxSize
    /\ setLog[Len(setLog)] = op.key
    /\ \A n \in 1..(Len(setLog) - 1) : setLog[n] # op.key


(***************************************************************************)
(* callFreeAI called with message sequences whose keys coincide.           *)
(***************************************************************************)
\* [{role: 'user', content: 'a'}, {role: 'user', content: 'b'}]
SplitMessages ==
    << [role |-> "user", content |-> <<"a">>], [role |-> "user", content |-> <<"b">>] >>

\* [{role: 'user', content: 'a|user:b'}]
JoinedMessages ==
    << [role |-> "user", content |-> <<"a", "|", "user", ":", "b">>] >>

KeyMessages == DirectMessages \cup {SplitMessages, JoinedMessages}

NextKeys ==
    \/ \E ms \in KeyMessages : DirectCall(ms, TRUE)
    \/ DirectReturn
    \/ ChainStep
    \/ Tick(1)

SpecKeys == Init /\ [][NextKeys]_vars


\* C38: two different message sequences never map to the same cache key, so
\* a cache hit in callFreeAI never returns text that was stored for another
\* sequence of messages: the second call made, when it is answered from the
\* cache, has the messages of the first call, the only one that had stored
C38_KeyPerSequence ==
    [][ (calls = 1 /\ calls' = 2 /\ ret'.from = "cache") => messages' = messages ]_vars

\* the only call made so far had two messages and returned a provider's text,
\* which the cache now holds under the key of a one-message sequence
C38_Witness ==
    /\ calls = 1
    /\ pc = "idle"
    /\ messages = SplitMessages
    /\ ret.kind = "return"
    /\ CacheHas(cache, makeKey(JoinedMessages))
    /\ CacheEntry(cache, makeKey(JoinedMessages)).value = ret.text


(***************************************************************************)
(* Properties of the proof label across resolutions.                       *)
(***************************************************************************)

\* a resolution follows one that was VERIFIED, with the same misconception
\* and action, no provider error, and a correctness at least as high
HigherAfterVerified ==
    /\ calls' = calls + 1
    /\ result.kind = "result"
    /\ result'.kind = "result"
    /\ result.proofLabel = "VERIFIED"
    /\ result.error = NoError
    /\ result'.error = NoError
    /\ result'.csv.m = result.csv.m
    /\ result'.action = result.action
    /\ result'.csv.c >= result.csv.c

\* C39 as stated: for a fixed misconception, a fixed action and no provider
\* error, if correctness c yields VERIFIED then every higher correctness
\* also yields VERIFIED
C39_MonotoneLabel ==
    [][ HigherAfterVerified => result'.proofLabel = "VERIFIED" ]_vars

\* C39: for a fixed misconception, a fixed action and no provider error, if
\* correctness c yields VERIFIED then a higher correctness yields VERIFIED
\* exactly when its constraint status is still GREEN
C39_MonotoneWhileGreen ==
    [][ HigherAfterVerified
        => (result'.proofLabel = "VERIFIED" <=> result'.constraint.status = "GREEN") ]_vars

\* a correctness above the threshold yields VERIFIED, as the threshold itself
\* does for the same misconception and action
C39_Witness ==
    /\ calls >= 2
    /\ result.kind = "result"
    /\ result.error = NoError
    /\ result.csv.c > CorrectHigh
    /\ result.proofLabel = "VERIFIED"
    /\ ProofLabelOf(CorrectHigh, result.csv.m, evalData.action, NoError) = "VERIFIED"


(***************************************************************************)
(* The SemanticSolver component: the input, the PROCESS button, and the    *)
(* handleProcess activations they start.                                   *)
(***************************************************************************)
MaxSubmits == 2

\* what the user types: a query Tier 1 resolves, one that goes to Tier 3,
\* and blanks
SolverQueries ==
    { <<"capital", "of", "france">>, <<"tell", "me", "about", "quasars">>, <<>> }

\* what callFreeAI ends with in Tier 3
SolverReturns ==
    { Returned(ProseText, "puter") } \cup { r \in EvaluationReturns : r.kind = "throw" }

\* onChange: setQuery(e.target.value)
SolverType(q) ==
    /\ q # solver.query
    /\ solver' = [solver EXCEPT !.query = q]
    /\ UNCHANGED <<op, ops, setLog, hits, getDeletes, mechanics, pending>>
    /\ UNCHANGED cacheVars
    /\ UNCHANGED callVars

\* handleProcess up to its first await: nothing for a blank query, else
\* setIsProcessing(true), setResult(null), and the 800 ms timer is started;
\* the activation keeps the query of the render it was made in
handleProcess ==
    /\ solver' =
          IF solver.query = <<>> THEN solver
          ELSE [solver EXCEPT
                   !.isProcessing = TRUE,
                   !.result = [run |-> 0, value |-> NoResult],
                   !.submitted = @ + 1,
                   !.runs = @ \cup { [id |-> solver.submitted + 1, query |-> solver.query,
                                      at |-> "delay"] }]
    /\ UNCHANGED <<op, ops, setLog, hits, getDeletes, mechanics, pending>>
    /\ UNCHANGED cacheVars
    /\ UNCHANGED callVars

\* onKeyDown with the Enter key: handleProcess(), whatever isProcessing is
SolverEnter ==
    /\ solver.submitted < MaxSubmits
    /\ handleProcess

\* onClick of the button, which is disabled while isProcessing
SolverClick ==
    /\ ~solver.isProcessing
    /\ solver.submitted < MaxSubmits
    /\ handleProcess

\* the end of an activation: setResult(res), setIsProcessing(false)
SolverShow(run, res) ==
    [solver EXCEPT !.result = [run |-> run.id, value |-> res],
                   !.isProcessing = FALSE,
                   !.runs = @ \ {run}]

\* the 800 ms timer of an activation fires (the timers fire in the order
\* they were started); engine.process then returns at once in Tier 1 and
\* Tier 2 and awaits callFreeAI in Tier 3
SolverDelayDone(run) ==
    /\ run \in solver.runs
    /\ run.at = "delay"
    /\ \A other \in solver.runs : other.at = "delay" => run.id <= other.id
    /\ solver' =
          IF KinematicResolution[run.query].tier = 1
          THEN SolverShow(run, KinematicResolution[run.query].tier1)
          ELSE IF KinematicResolution[run.query].tier = 2
          THEN SolverShow(run, KinematicResolution[run.query].tier2)
          ELSE [solver EXCEPT !.runs = (@ \ {run}) \cup {[run EXCEPT !.at = "process"]}]
    /\ UNCHANGED <<op, ops, setLog, hits, getDeletes, mechanics, pending>>
    /\ UNCHANGED cacheVars
    /\ UNCHANGED callVars

\* callFreeAI ended with r for an activation in Tier 3: engine.process returns
SolverProcessDone(run, r) ==
    /\ run \in solver.runs
    /\ run.at = "process"
    /\ solver' = SolverShow(run, matchTier3(r))
    /\ UNCHANGED <<op, ops, setLog, hits, getDeletes, mechanics, pending>>
    /\ UNCHANGED cacheVars
    /\ UNCHANGED callVars

NextSolver ==
    \/ \E q \in SolverQueries : SolverType(q)
    \/ SolverClick
    \/ SolverEnter
    \/ \E run \in solver.runs : SolverDelayDone(run)
    \/ \E run \in solver.runs, r \in SolverReturns : SolverProcessDone(run, r)

SpecSolver == Init /\ [][NextSolver]_vars


(***************************************************************************)
(* Properties of SemanticSolver.                                           *)
(***************************************************************************)

\* C40: the result displayed by SemanticSolver always belongs to the most
\* recently submitted query: the result of an earlier query, arriving while
\* or after a later one resolves, is never what the component shows
C40_LatestQueryShown ==
    solver.result.run # 0 => solver.result.run = solver.submitted

\* two queries were submitted, both activations have ended, and the result
\* shown is that of the first: it arrived last and replaced the result of
\* the second
C40_Witness ==
    /\ solver.submitted = 2
    /\ solver.runs = {}
    /\ ~solver.isProcessing
    /\ solver.result.run = 1
    /\ solver.result.value.tier = 3

====
